---- MODULE Spec2Model ----
(***************************************************************************)
(* Model of the committee-schedule pipeline: the fetch stage               *)
(* (scripts/fetch.js) that writes output/house.json, output/senate.json    *)
(* and output/house_api_debug.json, and the build stage                    *)
(* (scripts/build-static-data.js) that derives, merges, decorates, sorts   *)
(* and writes docs/data/*.json and docs/data/senate-history.json.          *)
(*                                                                         *)
(* A JavaScript string is a sequence of one-character strings; '' and      *)
(* undefined are both the empty sequence (every use in the code is a       *)
(* truthiness test or goes through norm).                                  *)
(***************************************************************************)
EXTENDS Integers, Sequences, FiniteSets, TLC

VARIABLES
  tz,             \* the time zone of the machine that runs the build stage
  clock,          \* the number of the next build run; its wall-clock time is IsoTime(clock)
  outHouse,       \* output/house.json, written by the fetch stage
  outHouseDebug,  \* output/house_api_debug.json: the rows of the raw API envelope
  outSenate,      \* output/senate.json, written by the fetch stage
  senateHtml,     \* output/senate.html: a saved copy of the Senate page, or Missing
  dataHouse,      \* docs/data/house.json
  dataSenate,     \* docs/data/senate.json
  dataAll,        \* docs/data/all.json
  senateHistory,  \* docs/data/senate-history.json
  metadata,       \* docs/data/metadata.json
  scraped,        \* the rows the last fetch parsed from the Senate page, before its dedupe
  merge,          \* the arguments and the result of the last mergeSenateHistory call
  call,           \* the last call of a helper function on its own: its name, arguments, result
  files,          \* of each JSON artifact the build stage reads: what its text is
  exitCode,       \* process.exitCode of the last build run
  down,           \* the chambers whose source failed in the last fetch run
  state,          \* the filter state of the static list page (docs/app.js)
  elements,       \* the form controls of the static list page
  filterCalls,    \* the number of calls of applyFilters since the page was loaded
  event           \* the last event dispatched on the page

\* The variables of the static list page.
pageVars == <<state, elements, filterCalls, event>>

vars == <<tz, clock, outHouse, outHouseDebug, outSenate, senateHtml, dataHouse, dataSenate,
          dataAll, senateHistory, metadata, scraped, merge, call, files, exitCode,
          down, pageVars>>

\* ------------------------------------------------------------------------
\* Characters
\* ------------------------------------------------------------------------

UpperLetters == <<"A","B","C","D","E","F","G","H","I","J","K","L","M",
                  "N","O","P","Q","R","S","T","U","V","W","X","Y","Z">>

LowerLetters == <<"a","b","c","d","e","f","g","h","i","j","k","l","m",
                  "n","o","p","q","r","s","t","u","v","w","x","y","z">>

DigitChars == <<"0","1","2","3","4","5","6","7","8","9">>

\* The characters of the model in UTF-16 code-unit order (the order of the
\* JavaScript string comparison < and >).  "nbsp" is U+00A0, "zwsp" U+200B.
CharOrder == <<" ", "\"", "#", "&", "'", "(", ")", ",", "-", ".", "/">> \o DigitChars
             \o <<":", ";", "<", ">">> \o UpperLetters \o <<"[", "]", "_">> \o LowerLetters
             \o <<"|", "nbsp", "mdot", "zwsp">>

Alphabet == {CharOrder[i] : i \in 1..Len(CharOrder)}

CodeOf == [c \in Alphabet |-> CHOOSE i \in 1..Len(CharOrder) : CharOrder[i] = c]

UpperSet == {UpperLetters[i] : i \in 1..26}

LowerSet == {LowerLetters[i] : i \in 1..26}

DigitSet == {DigitChars[i] : i \in 1..10}

\* String.prototype.toLowerCase / toUpperCase, one character.
LowerMap == [c \in Alphabet |->
               IF c \in UpperSet
               THEN LowerLetters[CHOOSE i \in 1..26 : UpperLetters[i] = c]
               ELSE c]

UpperMap == [c \in Alphabet |->
               IF c \in LowerSet
               THEN UpperLetters[CHOOSE i \in 1..26 : LowerLetters[i] = c]
               ELSE c]

DigitVal == [c \in DigitSet |-> (CHOOSE i \in 1..10 : DigitChars[i] = c) - 1]

IsDigit(c) == c \in DigitSet

IsAlpha(c) == c \in UpperSet \/ c \in LowerSet

\* \w of a JavaScript regular expression.
IsWord(c) == IsAlpha(c) \/ IsDigit(c) \/ c = "_"

\* \s of a JavaScript regular expression (and what trim() strips).
JsSpace == {" ", "nbsp"}

\* The class [\s\u200B] of norm in build-static-data.js.
NormSpace == JsSpace \cup {"zwsp"}

\* ------------------------------------------------------------------------
\* Strings
\* ------------------------------------------------------------------------

\* const name = value; followed by the statements In that use name.  The
\* test makes TLC compute value here, once, as JavaScript does; it is true
\* of every value.
With(value, In(_)) == IF value = value THEN In(value) ELSE In(value)

\* The sequence f as a tuple: its elements are computed here, once, and not
\* at each later use of the sequence.
Tuple(f) == <<>> \o f

toLowerCase(s) == IF s = <<>> THEN <<>> ELSE Tuple([i \in 1..Len(s) |-> LowerMap[s[i]]])

toUpperCase(s) == IF s = <<>> THEN <<>> ELSE Tuple([i \in 1..Len(s) |-> UpperMap[s[i]]])

\* s.slice(a, b) with 0-based a (inclusive) and b (exclusive), 0 <= a.
Slice(s, a, b) ==
  LET e == IF b > Len(s) THEN Len(s) ELSE b
  IN IF a >= e THEN <<>> ELSE SubSeq(s, a + 1, e)

\* The part of s from the 1-based position i on.
From(s, i) == IF i > Len(s) THEN <<>> ELSE SubSeq(s, i, Len(s))

\* Whether the lower-cased pattern pat occurs in s at the 1-based position i,
\* case-insensitively.
MatchesAtCI(s, i, pat) ==
  /\ i >= 1
  /\ i + Len(pat) - 1 <= Len(s)
  /\ \A k \in 1..Len(pat) : LowerMap[s[i + k - 1]] = pat[k]

\* The least and the greatest number of a non-empty set of numbers.
Least(set) == CHOOSE k \in set : \A e \in set : k <= e

Greatest(set) == CHOOSE k \in set : \A e \in set : k >= e

\* The JavaScript comparison a < b of two strings: the first position where
\* they differ decides; a proper prefix is less.
StrLess(a, b) ==
  With({i \in 1..Len(a) : i <= Len(b) /\ a[i] # b[i]}, LAMBDA differ :
    IF differ = {} THEN Len(a) < Len(b)
    ELSE CodeOf[a[Least(differ)]] < CodeOf[b[Least(differ)]])

\* The first position >= i of s whose character is not in set, or Len(s)+1
\* (i itself when i is beyond the end).
SkipSet(s, i, set) ==
  Least({k \in i..Len(s) : s[k] \notin set} \cup {IF i > Len(s) THEN i ELSE Len(s) + 1})

\* The first position >= i of s whose character is not a digit, or Len(s)+1.
SkipDigits(s, i) == SkipSet(s, i, DigitSet)

\* The first position >= i of s whose character is not a letter, or Len(s)+1.
SkipAlpha(s, i) == SkipSet(s, i, UpperSet \cup LowerSet)

\* s.replace(/[set]+/g, ' '): every maximal run of characters of set becomes
\* one space, so of a run only its first character stays, as a space.
CollapseRuns(s, set) ==
  IF s = <<>> THEN <<>> ELSE
  With(SelectSeq([i \in 1..Len(s) |-> i],
                 LAMBDA i : s[i] \notin set \/ i = 1 \/ s[i - 1] \notin set), LAMBDA kept :
    Tuple([k \in 1..Len(kept) |-> IF s[kept[k]] \in set THEN " " ELSE s[kept[k]]]))

\* String.prototype.trim.
TrimEnd(s) ==
  IF s = <<>> THEN <<>>
  ELSE SubSeq(s, 1, Greatest({i \in 1..Len(s) : s[i] \notin JsSpace} \cup {0}))

Trim(s) == IF s = <<>> THEN <<>> ELSE TrimEnd(From(s, SkipSet(s, 1, JsSpace)))

\* s.replace(/x/g, y) for single characters: every character of set becomes to.
ReplaceChars(s, set, to) ==
  IF s = <<>> THEN <<>> ELSE Tuple([i \in 1..Len(s) |-> IF s[i] \in set THEN to ELSE s[i]])

\* parts.join(sep) for a list of strings.
RECURSIVE Join(_, _)
Join(parts, sep) ==
  IF parts = <<>> THEN <<>>
  ELSE IF Len(parts) = 1 THEN parts[1]
  ELSE parts[1] \o sep \o Join(Tail(parts), sep)

\* parseInt(s, 10) of a string of digits.
RECURSIVE ParseInt(_)
ParseInt(s) ==
  IF s = <<>> THEN 0 ELSE 10 * ParseInt(SubSeq(s, 1, Len(s) - 1)) + DigitVal[s[Len(s)]]

\* String(n) for n >= 0.
RECURSIVE NumStr(_)
NumStr(n) ==
  IF n < 10 THEN <<DigitChars[n + 1]>> ELSE NumStr(n \div 10) \o <<DigitChars[(n % 10) + 1]>>

\* String(n).padStart(w, '0').
RECURSIVE PadStart(_, _)
PadStart(s, w) == IF Len(s) >= w THEN s ELSE PadStart(<<"0">> \o s, w)

\* ------------------------------------------------------------------------
\* Text normalizer (build-static-data.js)
\* ------------------------------------------------------------------------

norm(value) ==
  IF value = <<>> THEN <<>>
  ELSE Trim(CollapseRuns(ReplaceChars(value, {"nbsp"}, " "), NormSpace))

\* s.replace(/a\.m\.|p\.m\./gi, m => m.toUpperCase().replace(/\./g, '')).
RECURSIVE ReplaceMeridiem(_)
ReplaceMeridiem(s) ==
  IF s = <<>> THEN <<>> ELSE
  With({i \in 1..Len(s) : \/ MatchesAtCI(s, i, <<"a", ".", "m", ".">>)
                          \/ MatchesAtCI(s, i, <<"p", ".", "m", ".">>)}, LAMBDA hits :
    IF hits = {} THEN s
    ELSE With(Least(hits), LAMBDA h :
           SubSeq(s, 1, h - 1) \o <<UpperMap[s[h]], UpperMap[s[h + 2]]>>
             \o ReplaceMeridiem(From(s, h + 4))))

\* parseClock as it would be without the collapse and trim steps that follow
\* the removal of the brackets.
parseClockUntrimmed(value) ==
  LET normalized == norm(value)
  IN IF normalized = <<>> THEN <<>>
     ELSE ReplaceMeridiem(ReplaceChars(normalized, {"(", ")", "[", "]"}, " "))

parseClock(value) ==
  LET normalized == norm(value)
      cleaned == ReplaceMeridiem(
                   Trim(CollapseRuns(ReplaceChars(normalized, {"(", ")", "[", "]"}, " "),
                                     JsSpace)))
  IN IF normalized = <<>> THEN <<>> ELSE Trim(CollapseRuns(cleaned, JsSpace))

toTwoDigits(input) == PadStart(NumStr(input), 2)

\* /\d{4}-\d{2}-\d{2}/ matching s at the 1-based position i.
IsoDateAt(s, i) ==
  /\ i + 9 <= Len(s)
  /\ \A k \in {0, 1, 2, 3, 5, 6, 8, 9} : IsDigit(s[i + k])
  /\ s[i + 4] = "-"
  /\ s[i + 7] = "-"

\* /\d{4}-\d{2}-\d{2}/.test(s)
HasIsoDate(s) == \E i \in 1..Len(s) : IsoDateAt(s, i)

\* /^\d{4}-\d{2}-\d{2}$/.test(s)
IsIsoDate(s) == Len(s) = 10 /\ IsoDateAt(s, 1)

Midnight == <<"T", "0", "0", ":", "0", "0", ":", "0", "0">>

\* norm(time).match(/(\d{1,2})(?::(\d{2}))?\s*(AM|PM)?/i): the leftmost match
\* starts at the first digit; every later part is optional.
TimeMatch(t) ==
  With({i \in 1..Len(t) : IsDigit(t[i])}, LAMBDA digits :
    IF digits = {} THEN [ok |-> FALSE]
    ELSE
      With(CHOOSE d \in digits : \A e \in digits : d <= e, LAMBDA i :
      With(IF i + 1 <= Len(t) /\ IsDigit(t[i + 1]) THEN i + 2 ELSE i + 1, LAMBDA p :
      With(/\ p + 2 <= Len(t)
           /\ t[p] = ":"
           /\ IsDigit(t[p + 1])
           /\ IsDigit(t[p + 2]), LAMBDA hasMin :
      With(SkipSet(t, IF hasMin THEN p + 3 ELSE p, JsSpace), LAMBDA q :
      With(MatchesAtCI(t, q, <<"a", "m">>) \/ MatchesAtCI(t, q, <<"p", "m">>), LAMBDA hasMer :
        [ok |-> TRUE,
         hourRaw |-> SubSeq(t, i, p - 1),
         minutesRaw |-> IF hasMin THEN SubSeq(t, p + 1, p + 2) ELSE <<>>,
         meridiemRaw |-> IF hasMer THEN SubSeq(t, q, q + 1) ELSE <<>>]))))))

\* toIso as it would be if PM added twelve hours to every hour.
toIsoPmAlways(date, time) ==
  With(norm(date), LAMBDA day :
    IF ~HasIsoDate(day) THEN <<>>
    ELSE IF time = <<>> THEN day \o Midnight
    ELSE
      With(TimeMatch(norm(time)), LAMBDA match :
        IF ~match.ok THEN day \o Midnight
        ELSE
          With(ParseInt(match.hourRaw), LAMBDA hour0 :
          With(IF match.minutesRaw # <<>> THEN ParseInt(match.minutesRaw) ELSE 0, LAMBDA minutes :
          With(toUpperCase(match.meridiemRaw), LAMBDA meridiem :
          With(IF meridiem = <<"P", "M">> THEN hour0 + 12 ELSE hour0, LAMBDA hour1 :
          With(IF meridiem = <<"A", "M">> /\ hour1 = 12 THEN 0 ELSE hour1, LAMBDA hour :
            day \o <<"T">> \o toTwoDigits(hour) \o <<":">> \o toTwoDigits(minutes)
                \o <<":", "0", "0">>)))))))

toIso(date, time) ==
  With(norm(date), LAMBDA day :
    IF ~HasIsoDate(day) THEN <<>>
    ELSE IF time = <<>> THEN day \o Midnight
    ELSE
      With(TimeMatch(norm(time)), LAMBDA match :
        IF ~match.ok THEN day \o Midnight
        ELSE
          With(ParseInt(match.hourRaw), LAMBDA hour0 :
          With(IF match.minutesRaw # <<>> THEN ParseInt(match.minutesRaw) ELSE 0, LAMBDA minutes :
          With(toUpperCase(match.meridiemRaw), LAMBDA meridiem :
          With(IF meridiem = <<"P", "M">> /\ hour0 < 12 THEN hour0 + 12 ELSE hour0, LAMBDA hour1 :
          With(IF meridiem = <<"A", "M">> /\ hour1 = 12 THEN 0 ELSE hour1, LAMBDA hour :
            day \o <<"T">> \o toTwoDigits(hour) \o <<":">> \o toTwoDigits(minutes)
                \o <<":", "0", "0">>)))))))

\* ------------------------------------------------------------------------
\* Date resolver (build-static-data.js)
\* ------------------------------------------------------------------------

\* The offset of the build machine's time zone from UTC: "west" (behind UTC),
\* "utc", or "east" (ahead of UTC).
TimeZones == {"west", "utc", "east"}

\* The month names of V8's date parser, which looks at the first three
\* letters of a word.
MonthPrefixes == << <<"j","a","n">>, <<"f","e","b">>, <<"m","a","r">>, <<"a","p","r">>,
                    <<"m","a","y">>, <<"j","u","n">>, <<"j","u","l">>, <<"a","u","g">>,
                    <<"s","e","p">>, <<"o","c","t">>, <<"n","o","v">>, <<"d","e","c">> >>

MonthOf(monthName) ==
  LET pre == toLowerCase(Slice(monthName, 0, 3))
  IN IF \E m \in 1..12 : MonthPrefixes[m] = pre
     THEN CHOOSE m \in 1..12 : MonthPrefixes[m] = pre
     ELSE 0

IsLeap(y) == (y % 4 = 0 /\ y % 100 # 0) \/ y % 400 = 0

DaysIn(y, m) ==
  IF m = 2 THEN (IF IsLeap(y) THEN 29 ELSE 28)
  ELSE IF m \in {4, 6, 9, 11} THEN 30 ELSE 31

\* The calendar day before y-m-d.
PrevDay(y, m, d) ==
  IF d > 1 THEN [y |-> y, m |-> m, d |-> d - 1]
  ELSE IF m > 1 THEN [y |-> y, m |-> m - 1, d |-> DaysIn(y, m - 1)]
  ELSE [y |-> y - 1, m |-> 12, d |-> 31]

\* date.toISOString().slice(0, 10) of the calendar day y-m-d.
IsoDateStr(y, m, d) ==
  PadStart(NumStr(y), 4) \o <<"-">> \o PadStart(NumStr(m), 2) \o <<"-">> \o PadStart(NumStr(d), 2)

\* new Date(`${monthName} ${day}, ${year}`).toISOString().slice(0, 10) on a
\* machine in time zone zone, '' for an invalid date.  The string is parsed
\* as local midnight; toISOString prints the UTC day, which is the day before
\* when the machine is ahead of UTC.  The model covers month words and days
\* inside their month.
LocalDateToIso(monthName, day, year, zone) ==
  With(MonthOf(monthName), LAMBDA m :
  With(ParseInt(day), LAMBDA d :
  With(ParseInt(year), LAMBDA y :
    IF m = 0 \/ d < 1 \/ d > DaysIn(y, m) THEN <<>>
    ELSE IF zone = "east"
         THEN With(PrevDay(y, m, d), LAMBDA p : IsoDateStr(p.y, p.m, p.d))
         ELSE IsoDateStr(y, m, d))))

\* s.replace(/\s*\([^)]*\)$/, ''): the leftmost '(' after which no ')' comes
\* before the closing ')' that ends the string, with the spaces before it.
StripTrailingParen(s) ==
  IF s = <<>> THEN <<>> ELSE
  LET opens == {i \in 1..Len(s) :
                  /\ s[i] = "("
                  /\ s[Len(s)] = ")"
                  /\ i < Len(s)
                  /\ \A k \in (i + 1)..(Len(s) - 1) : s[k] # ")"}
  IN IF opens = {} THEN s
     ELSE LET i == CHOOSE o \in opens : \A e \in opens : o <= e
          IN TrimEnd(SubSeq(s, 1, i - 1))

\* \b between the positions i-1 and i of s.
WordBoundary(s, i) ==
  LET before == i - 1 >= 1 /\ i - 1 <= Len(s) /\ IsWord(s[i - 1])
      after == i >= 1 /\ i <= Len(s) /\ IsWord(s[i])
  IN before # after

\* s.replace(/\bWeek of\b/i, '')
StripWeekOf(s) ==
  IF s = <<>> THEN <<>> ELSE
  With({i \in 1..Len(s) :
          /\ MatchesAtCI(s, i, <<"w", "e", "e", "k", " ", "o", "f">>)
          /\ WordBoundary(s, i)
          /\ WordBoundary(s, i + 7)}, LAMBDA hits :
    IF hits = {} THEN s
    ELSE With(CHOOSE h \in hits : \A e \in hits : h <= e, LAMBDA i :
           SubSeq(s, 1, i - 1) \o From(s, i + 7)))

\* s.replace(/\bWeek\s+\d+\b/i, '')
StripWeekNumber(s) ==
  IF s = <<>> THEN <<>> ELSE
  LET EndOf(i) == SkipDigits(s, SkipSet(s, i + 4, JsSpace))
  IN With({i \in 1..Len(s) :
             /\ MatchesAtCI(s, i, <<"w", "e", "e", "k">>)
             /\ WordBoundary(s, i)
             /\ With(SkipSet(s, i + 4, JsSpace), LAMBDA d :
                   /\ d > i + 4
                   /\ SkipDigits(s, d) > d
                   /\ WordBoundary(s, SkipDigits(s, d)))}, LAMBDA hits :
       IF hits = {} THEN s
       ELSE With(CHOOSE h \in hits : \A e \in hits : h <= e, LAMBDA i :
              SubSeq(s, 1, i - 1) \o From(s, EndOf(i))))

\* s.replace(/^[A-Z]+,?\s+/i, ''): a leading word, an optional comma and the
\* spaces after it.
DropWeekday(s) ==
  IF s = <<>> THEN <<>> ELSE
  LET a == SkipAlpha(s, 1)
      c == IF a <= Len(s) /\ s[a] = "," THEN a + 1 ELSE a
      w == SkipSet(s, c, JsSpace)
  IN IF a > 1 /\ w > c THEN From(s, w) ELSE s

\* s.match(/([A-Za-z]+)\s+(\d{1,2})(?:,?\s*(\d{4}))?/): the leftmost word that
\* is followed by spaces and a digit; the day takes two digits when it can;
\* the year group is optional.
MonthDayMatch(s) ==
  With({i \in 1..Len(s) :
          /\ IsAlpha(s[i])
          /\ With(SkipAlpha(s, i), LAMBDA e :
              With(SkipSet(s, e, JsSpace), LAMBDA w :
                w > e /\ w <= Len(s) /\ IsDigit(s[w])))}, LAMBDA starts :
    IF starts = {} THEN [ok |-> FALSE]
    ELSE
      With(CHOOSE b \in starts : \A o \in starts : b <= o, LAMBDA i :
      With(SkipAlpha(s, i), LAMBDA e :
      With(SkipSet(s, e, JsSpace), LAMBDA d :
      With(IF d + 1 <= Len(s) /\ IsDigit(s[d + 1]) THEN d + 2 ELSE d + 1, LAMBDA dEnd :
      With(IF dEnd <= Len(s) /\ s[dEnd] = "," THEN dEnd + 1 ELSE dEnd, LAMBDA c :
      With(SkipSet(s, c, JsSpace), LAMBDA y :
      With(y + 3 <= Len(s) /\ \A k \in 0..3 : IsDigit(s[y + k]), LAMBDA hasYear :
        [ok |-> TRUE,
         monthName |-> SubSeq(s, i, e - 1),
         day |-> SubSeq(s, d, dEnd - 1),
         yearRaw |-> IF hasYear THEN SubSeq(s, y, y + 3) ELSE <<>>]))))))))

\* parseSenateDate(headerText, fallbackYear) on a machine in time zone zone.
parseSenateDateIn(headerText, fallbackYear, zone) ==
  With(Trim(StripWeekNumber(StripWeekOf(StripTrailingParen(norm(headerText))))), LAMBDA cleaned :
    IF cleaned = <<>> THEN <<>>
    ELSE
      With(MonthDayMatch(DropWeekday(cleaned)), LAMBDA match :
        IF ~match.ok THEN <<>>
        ELSE With(IF match.yearRaw # <<>> THEN match.yearRaw ELSE fallbackYear, LAMBDA year :
               IF year = <<>> THEN <<>>
               ELSE LocalDateToIso(match.monthName, match.day, year, zone))))

parseSenateDate(headerText, fallbackYear) == parseSenateDateIn(headerText, fallbackYear, tz)

\* ------------------------------------------------------------------------
\* JavaScript objects: a record is a function from field names to values
\* ------------------------------------------------------------------------

\* obj.f, the empty string standing for undefined.
Get(obj, f) == IF f \in DOMAIN obj THEN obj[f] ELSE <<>>

\* obj.f of a boolean flag, false standing for undefined.
Flag(obj, f) == IF f \in DOMAIN obj THEN obj[f] ELSE FALSE

\* a || b of two strings.
Or(a, b) == IF a # <<>> THEN a ELSE b

\* { ...under, ...over }
Spread(under, over) == over @@ under

Bar == <<"|">>

HOUSE_SOURCE == <<"H", "o", "u", "s", "e", " ", "o", "f", " ", "R", "e", "p", "r", "e", "s", "e", "n", "t", "a", "t", "i", "v", "e", "s", " ", "(", "A", "P", "I", ")">>

SENATE_SOURCE == <<"S", "e", "n", "a", "t", "e", " ", "W", "e", "e", "k", "l", "y", " ", "S", "c", "h", "e", "d", "u", "l", "e">>

HouseBranch == <<"H", "o", "u", "s", "e", " ", "o", "f", " ", "R", "e", "p", "r", "e", "s", "e", "n", "t", "a", "t", "i", "v", "e", "s">>

SenateBranch == <<"S", "e", "n", "a", "t", "e">>

Scheduled == <<"S", "c", "h", "e", "d", "u", "l", "e", "d">>

\* ------------------------------------------------------------------------
\* The wall clock
\* ------------------------------------------------------------------------

\* The day of August 2025 of run 0; run k happens k days later.
BaseDay == 10

\* new Date().toISOString() at run k.
IsoTime(k) ==
  <<"2", "0", "2", "5", "-", "0", "8", "-">> \o toTwoDigits(BaseDay + k) \o <<"T", "0", "6", ":", "0", "0", ":", "0", "0", ".", "0", "0", "0", "Z">>

\* ------------------------------------------------------------------------
\* Senate records (build-static-data.js)
\* ------------------------------------------------------------------------

\* The year of a stored timestamp; the Date fall-back of the code is reached
\* only by a field that does not start with four digits, which no field the
\* pipeline stores does.
YearOfCandidate(candidate) ==
  LET trimmed == Trim(candidate)
  IN IF Len(trimmed) >= 4 /\ \A k \in 1..4 : IsDigit(trimmed[k])
     THEN SubSeq(trimmed, 1, 4)
     ELSE <<>>

extractYearFromRecord(record) ==
  LET candidates == <<Get(record, "isoDate"), Get(record, "capturedAt"),
                      Get(record, "firstSeenAt"), Get(record, "lastSeenAt")>>
      found == {i \in 1..4 : candidates[i] # <<>> /\ YearOfCandidate(candidates[i]) # <<>>}
  IN IF found = {} THEN <<>>
     ELSE YearOfCandidate(candidates[CHOOSE i \in found : \A j \in found : i <= j])

normalizeSenateDate(record) ==
  With(extractYearFromRecord(record), LAMBDA fallbackYear :
  With(norm(Get(record, "date")), LAMBDA direct :
    IF direct # <<>> /\ IsIsoDate(direct) THEN direct
    ELSE
      With(IF direct # <<>> THEN parseSenateDate(direct, fallbackYear) ELSE <<>>, LAMBDA fromDirect :
        IF fromDirect # <<>> THEN fromDirect
        ELSE
          With(norm(Or(Get(record, "dateLabel"), Get(record, "displayDate"))), LAMBDA label :
            IF label # <<>> /\ IsIsoDate(label) THEN label
            ELSE
              With(IF label # <<>> THEN parseSenateDate(label, fallbackYear) ELSE <<>>, LAMBDA fromLabel :
                IF fromLabel # <<>> THEN fromLabel
                ELSE direct)))))

SenateIdPrefix == <<"s", "e", "n", "a", "t", "e", "-">>

deriveSenateRecords(data) ==
  LET mapped == [i \in 1..Len(data) |->
        LET item == data[i]
        IN [id |-> SenateIdPrefix \o Or(Get(item, "id"), NumStr(i)),
            branch |-> SenateBranch,
            committee |-> norm(Or(Get(item, "committee"), Get(item, "title"))),
            date |-> normalizeSenateDate(item),
            time |-> parseClock(Get(item, "time")),
            venue |-> norm(Get(item, "venue")),
            agenda |-> norm(Or(Get(item, "agenda"), Get(item, "subject"))),
            status |-> Or(norm(Or(Get(item, "status"), Scheduled)), Scheduled),
            notes |-> norm(Get(item, "notes")),
            isoDate |-> toIso(normalizeSenateDate(item), parseClock(Get(item, "time"))),
            source |-> SENATE_SOURCE,
            dateLabel |-> norm(Or(Get(item, "dateLabel"), Get(item, "displayDate"))),
            capturedAt |-> Get(item, "capturedAt")]]
  IN SelectSeq(mapped, LAMBDA item : item.date # <<>> /\ item.time # <<>> /\ item.committee # <<>>)

senateHistoryKey(record) ==
  With(norm(Get(record, "committee")), LAMBDA committee :
  With(parseClock(Get(record, "time")), LAMBDA time :
  With(Or(Get(record, "isoDate"), toIso(normalizeSenateDate(record), time)), LAMBDA iso :
    IF committee = <<>> \/ time = <<>> THEN <<>>
    ELSE IF iso # <<>> THEN toLowerCase(Slice(iso, 0, 10) \o Bar \o time \o Bar \o committee)
    ELSE
      With(norm(Or(Get(record, "date"), Get(record, "dateLabel"))), LAMBDA fallbackDate :
        IF fallbackDate = <<>> THEN <<>>
        ELSE toLowerCase(fallbackDate \o Bar \o time \o Bar \o committee)))))

\* A JavaScript Map: its entries in insertion order.
MapHas(map, key) == \E i \in 1..Len(map) : map[i].key = key

MapGet(map, key) == map[CHOOSE i \in 1..Len(map) : map[i].key = key].value

MapSet(map, key, value) ==
  IF MapHas(map, key)
  THEN Tuple([i \in 1..Len(map) |->
                IF map[i].key = key THEN [key |-> key, value |-> value] ELSE map[i]])
  ELSE Append(map, [key |-> key, value |-> value])

MapValues(map) == Tuple([i \in 1..Len(map) |-> map[i].value])

\* The key under which ingest files a record, '' when it skips the record.
ingestKey(record) ==
  With(norm(Get(record, "committee")), LAMBDA committee :
  With(parseClock(Get(record, "time")), LAMBDA time :
    IF committee = <<>> \/ time = <<>> THEN <<>>
    ELSE senateHistoryKey(
           Spread(record,
                  [committee |-> committee,
                   time |-> time,
                   isoDate |-> Or(Get(record, "isoDate"),
                                  toIso(normalizeSenateDate(record), time))]))))

\* The merge of a record into the entry that is already filed under its key.
mergeExisting(existing, base, firstSeen, lastSeen) ==
  Spread(Spread(existing, base),
         [agenda |-> Or(base.agenda, Get(existing, "agenda")),
          notes |-> Or(base.notes, Get(existing, "notes")),
          dateLabel |-> Or(base.dateLabel, Get(existing, "dateLabel")),
          capturedAt |-> Or(base.capturedAt, Get(existing, "capturedAt")),
          firstSeenAt |-> IF Get(existing, "firstSeenAt") # <<>>
                             /\ StrLess(Get(existing, "firstSeenAt"), firstSeen)
                          THEN Get(existing, "firstSeenAt") ELSE firstSeen,
          lastSeenAt |-> IF Get(existing, "lastSeenAt") # <<>>
                            /\ StrLess(lastSeen, Get(existing, "lastSeenAt"))
                         THEN Get(existing, "lastSeenAt") ELSE lastSeen])

\* ingest(record, seenAt) of mergeSenateHistory, on the map it updates.
ingest(map, record, seenAt, now) ==
  With(norm(Get(record, "committee")), LAMBDA committee :
  With(parseClock(Get(record, "time")), LAMBDA time :
  With(normalizeSenateDate(record), LAMBDA normalizedDate :
  With(Or(Get(record, "isoDate"), toIso(normalizedDate, time)), LAMBDA iso :
    IF committee = <<>> \/ time = <<>> THEN map
    ELSE
      With(ingestKey(record), LAMBDA key :
        IF key = <<>> THEN map
        ELSE
          With(Spread(record,
                 [committee |-> committee,
                  time |-> time,
                  venue |-> norm(Get(record, "venue")),
                  agenda |-> norm(Get(record, "agenda")),
                  notes |-> norm(Get(record, "notes")),
                  status |-> Or(norm(Or(Get(record, "status"), Scheduled)), Scheduled),
                  isoDate |-> iso,
                  date |-> IF iso # <<>> THEN Slice(iso, 0, 10)
                           ELSE Or(normalizedDate,
                                   norm(Or(Get(record, "date"), Get(record, "dateLabel")))),
                  dateLabel |-> norm(Or(Get(record, "dateLabel"), Get(record, "displayDate"))),
                  source |-> Or(Get(record, "source"), SENATE_SOURCE),
                  capturedAt |-> Or(Get(record, "capturedAt"), Or(seenAt, now))]), LAMBDA base :
          With(Or(Get(record, "firstSeenAt"), Or(seenAt, now)), LAMBDA firstSeen :
          With(Or(Get(record, "lastSeenAt"), Or(seenAt, now)), LAMBDA lastSeen :
            IF ~MapHas(map, key)
            THEN MapSet(map, key,
                        Spread(base, [firstSeenAt |-> firstSeen, lastSeenAt |-> lastSeen]))
            ELSE MapSet(map, key,
                        mergeExisting(MapGet(map, key), base, firstSeen, lastSeen))))))))))

\* previous.forEach(record => ingest(record, record's own seen-at))
RECURSIVE ingestPrevious(_, _, _)
ingestPrevious(map, previous, now) ==
  IF previous = <<>> THEN map
  ELSE LET record == Head(previous)
           seenAt == Or(Get(record, "lastSeenAt"),
                        Or(Get(record, "capturedAt"), Or(Get(record, "firstSeenAt"), now)))
       IN With(ingest(map, record, seenAt, now), LAMBDA next :
            ingestPrevious(next, Tail(previous), now))

\* current.forEach(record => ingest(record, now))
RECURSIVE ingestCurrent(_, _, _)
ingestCurrent(map, current, now) ==
  IF current = <<>> THEN map
  ELSE With(ingest(map, Head(current), now, now), LAMBDA next :
         ingestCurrent(next, Tail(current), now))

\* mergeSenateHistory(current, previous) called at the time now.
mergeSenateHistoryAt(current, previous, now) ==
  With(ingestPrevious(<<>>, previous, now), LAMBDA filed :
  With(ingestCurrent(filed, current, now), LAMBDA map :
  With(MapValues(map), LAMBDA values :
    Tuple([i \in 1..Len(values) |->
             Spread(values[i],
                    [firstSeenAt |-> Or(Get(values[i], "firstSeenAt"), now),
                     lastSeenAt |-> Or(Get(values[i], "lastSeenAt"), now)])]))))

mergeSenateHistory(current, previous) == mergeSenateHistoryAt(current, previous, IsoTime(clock))

\* ------------------------------------------------------------------------
\* The HTML-table adapter of the build stage
\* ------------------------------------------------------------------------

\* A Senate page is the list of its day tables; a table has the text of its
\* day header and its data rows; a data row has the text of its committee
\* cell and, for the time-and-venue cell and the agenda cell, the texts of
\* the fragments between the <br> tags.  Every data row has three cells.

\* regex.test(s) for a case-insensitive literal pattern.
ContainsCI(s, pat) == \E i \in 1..Len(s) : MatchesAtCI(s, i, pat)

\* html.split(/<br\s*\/?>/i).map(htmlToText).filter(Boolean)
cellParts(fragments) ==
  SelectSeq([i \in 1..Len(fragments) |-> norm(fragments[i])], LAMBDA part : part # <<>>)

\* The data rows of one day table, appended to records.
RECURSIVE htmlRows(_, _, _)
htmlRows(records, isoDate, rows) ==
  IF rows = <<>> THEN records
  ELSE
    LET row == Head(rows)
        committee == norm(row.committee)
        timeVenueParts == cellParts(row.timeVenue)
        agendaParts == cellParts(row.agenda)
        time == parseClock(IF timeVenueParts # <<>> THEN timeVenueParts[1] ELSE <<>>)
        venue == Join(Tail(IF timeVenueParts # <<>> THEN timeVenueParts ELSE <<<<>>>>), <<" ">>)
        agenda == Join(agendaParts, <<";", " ">>)
        record == [id |-> SenateIdPrefix \o NumStr(Len(records) + 1),
                   branch |-> SenateBranch,
                   committee |-> committee,
                   date |-> isoDate,
                   time |-> time,
                   venue |-> venue,
                   agenda |-> agenda,
                   status |-> Scheduled,
                   notes |-> <<>>,
                   isoDate |-> toIso(isoDate, time),
                   source |-> SENATE_SOURCE]
    IN IF committee = <<>> \/ ContainsCI(committee, <<"n", "o", " ", "c", "o", "m", "m", "i", "t", "t", "e", "e", " ", "h", "e", "a", "r", "i", "n", "g">>)
       THEN htmlRows(records, isoDate, Tail(rows))
       ELSE IF isoDate = <<>> \/ time = <<>> \/ committee = <<>>
       THEN htmlRows(records, isoDate, Tail(rows))
       ELSE htmlRows(Append(records, record), isoDate, Tail(rows))

RECURSIVE htmlTables(_, _)
htmlTables(records, tables) ==
  IF tables = <<>> THEN records
  ELSE LET dayHeader == norm(Head(tables).dayHeader)
           isoDate == parseSenateDate(dayHeader, <<>>)
       IN htmlTables(htmlRows(records, isoDate, Head(tables).rows), Tail(tables))

\* `${record.date}|${record.time}|${record.committee}`.toLowerCase()
recordKey(record) ==
  toLowerCase(Get(record, "date") \o Bar \o Get(record, "time") \o Bar \o Get(record, "committee"))

\* The dedupe loop as it would be if a later record of a key replaced the
\* earlier one: the last record of each key.
RECURSIVE dedupeFromLast(_, _, _)
dedupeFromLast(deduped, seen, records) ==
  IF records = <<>> THEN deduped
  ELSE IF \E i \in 2..Len(records) : recordKey(records[i]) = recordKey(Head(records))
       THEN dedupeFromLast(deduped, seen, Tail(records))
       ELSE dedupeFromLast(Append(deduped, Head(records)), seen, Tail(records))

\* The dedupe loop: the first record of each key, in input order.
RECURSIVE dedupeFrom(_, _, _)
dedupeFrom(deduped, seen, records) ==
  IF records = <<>> THEN deduped
  ELSE LET key == recordKey(Head(records))
       IN IF key \in seen
          THEN dedupeFrom(deduped, seen, Tail(records))
          ELSE dedupeFrom(Append(deduped, Head(records)), seen \cup {key}, Tail(records))

dedupe(records) == dedupeFrom(<<>>, {}, records)

deriveSenateRecordsFromHtml(html) == dedupe(htmlTables(<<>>, html))

\* ------------------------------------------------------------------------
\* House records (build-static-data.js)
\* ------------------------------------------------------------------------

\* s.replaceAll(pat, rep) (and s.replace(/pat/g, rep) for a literal pat).
RECURSIVE ReplaceAll(_, _, _)
ReplaceAll(s, pat, rep) ==
  IF s = <<>> THEN <<>> ELSE
  With({i \in 1..(Len(s) - Len(pat) + 1) : SubSeq(s, i, i + Len(pat) - 1) = pat}, LAMBDA hits :
    IF hits = {} THEN s
    ELSE With(Least(hits), LAMBDA h :
           SubSeq(s, 1, h - 1) \o rep \o ReplaceAll(From(s, h + Len(pat)), pat, rep)))

HouseIdPrefix == <<"h", "o", "u", "s", "e", "-">>

\* Math.random().toString(36).slice(2) for the row at position i: an id no
\* other part of the pipeline reads.
randomId(i) == <<"r">> \o NumStr(i)

StatusSeparator == <<" ", "mdot", " ">>

houseRecord(row, i) ==
  LET date == norm(Or(Get(row, "date"), Get(row, "scheduleDate")))
      time == parseClock(Or(Get(row, "time"), Get(row, "scheduleTime")))
      agenda == norm(Or(Get(row, "agenda"), Get(row, "subject")))
      committee == norm(Or(Get(row, "comm_name"), Get(row, "committee")))
      venue == norm(Get(row, "venue"))
      bits1 == IF Flag(row, "cancelled") THEN <<<<"C", "a", "n", "c", "e", "l", "l", "e", "d">>>> ELSE <<>>
      bits2 == IF Get(row, "resched") # <<>>
               THEN Append(bits1, <<"R", "e", "s", "c", "h", "e", "d", "u", "l", "e", "d", ":", " ">> \o norm(Get(row, "resched")))
               ELSE bits1
      bits3 == IF Get(row, "remarks") # <<>> THEN Append(bits2, norm(Get(row, "remarks")))
               ELSE bits2
      statusBits == IF bits3 = <<>> THEN <<Scheduled>> ELSE bits3
      isoDate == IF Get(row, "datetime") # <<>>
                 THEN ReplaceAll(Get(row, "datetime") \o <<":", "0", "0">>, <<":", ":">>, <<":">>)
                 ELSE toIso(date, time)
  IN [id |-> HouseIdPrefix
             \o Or(Get(row, "id"), Or(Get(row, "record_id"), Or(Get(row, "_id"), randomId(i)))),
      branch |-> HouseBranch,
      committee |-> committee,
      date |-> date,
      time |-> time,
      venue |-> venue,
      agenda |-> agenda,
      status |-> Join(statusBits, StatusSeparator),
      notes |-> norm(IF Flag(row, "onwards") THEN <<"O", "n", "w", "a", "r", "d", "s">> ELSE <<>>),
      isoDate |-> isoDate,
      source |-> HOUSE_SOURCE]

\* deriveHouseRecords as it would be if a cancelled row gave no record.
deriveHouseRecordsDropCancelled(rows) ==
  SelectSeq([i \in 1..Len(rows) |-> houseRecord(rows[i], i)],
            LAMBDA record : /\ record.date # <<>>
                            /\ record.committee # <<>>
                            /\ ~ContainsCI(record.status, <<"c", "a", "n", "c", "e", "l", "l", "e", "d">>))

deriveHouseRecords(rows) ==
  SelectSeq([i \in 1..Len(rows) |-> houseRecord(rows[i], i)],
            LAMBDA record : record.date # <<>> /\ record.committee # <<>>)

\* ------------------------------------------------------------------------
\* Canonical assembler (build-static-data.js)
\* ------------------------------------------------------------------------

\* decorateRecords as it would be if it kept a searchText the record brings.
decorateRecordsKeepText(records) ==
  Tuple([i \in 1..Len(records) |->
     LET record == records[i]
         parts == <<Get(record, "branch"), Get(record, "committee"), Get(record, "venue"),
                    Get(record, "agenda"), Get(record, "status"), Get(record, "notes")>>
         kept == SelectSeq([k \in 1..6 |-> norm(parts[k])], LAMBDA part : part # <<>>)
     IN Spread(record,
               [isoDate |-> Or(Get(record, "isoDate"),
                               toIso(Get(record, "date"), Get(record, "time"))),
                searchText |-> Or(Get(record, "searchText"),
                                  toLowerCase(Join(kept, <<" ">>)))])])

decorateRecords(records) ==
  Tuple([i \in 1..Len(records) |->
     LET record == records[i]
         parts == <<Get(record, "branch"), Get(record, "committee"), Get(record, "venue"),
                    Get(record, "agenda"), Get(record, "status"), Get(record, "notes")>>
         kept == SelectSeq([k \in 1..6 |-> norm(parts[k])], LAMBDA part : part # <<>>)
     IN Spread(record,
               [isoDate |-> Or(Get(record, "isoDate"),
                               toIso(Get(record, "date"), Get(record, "time"))),
                searchText |-> toLowerCase(Join(kept, <<" ">>))])])

\* The characters in the order of the collation that localeCompare uses:
\* spaces, punctuation, symbols, digits, letters; a letter's case decides
\* only between strings that are otherwise equal, lower case first.
CollationOrder == <<" ", "nbsp", "zwsp", "_", "-", ",", ";", ":", ".", "mdot", "'", "\"",
                    "(", ")", "[", "]", "/", "&", "#", "<", ">", "|">>
                  \o DigitChars \o LowerLetters

CollationWeight == [c \in Alphabet |->
                      CHOOSE i \in 1..Len(CollationOrder) : CollationOrder[i] = LowerMap[c]]

\* The first position where the weights differ decides; a proper prefix
\* comes first.
primaryCompare(a, b) ==
  With({i \in 1..Len(a) : i <= Len(b) /\ CollationWeight[a[i]] # CollationWeight[b[i]]},
       LAMBDA differ :
    IF differ # {}
    THEN (IF CollationWeight[a[Least(differ)]] < CollationWeight[b[Least(differ)]] THEN -1 ELSE 1)
    ELSE IF Len(a) < Len(b) THEN -1
    ELSE IF Len(a) > Len(b) THEN 1
    ELSE 0)

\* a.localeCompare(b)
localeCompare(a, b) ==
  LET primary == primaryCompare(a, b)
      differ == {i \in 1..Len(a) : a[i] # b[i]}
  IN IF primary # 0 THEN primary
     ELSE IF differ = {} THEN 0
     ELSE IF a[CHOOSE i \in differ : \A j \in differ : i <= j] \in LowerSet THEN -1
     ELSE 1

\* The comparator as it would be with the two tests for a missing isoDate
\* exchanged: records without isoDate first.
compareRecordsEmptyFirst(a, b) ==
  IF a.isoDate # <<>> /\ b.isoDate # <<>> /\ StrLess(a.isoDate, b.isoDate) THEN -1
  ELSE IF a.isoDate # <<>> /\ b.isoDate # <<>> /\ StrLess(b.isoDate, a.isoDate) THEN 1
  ELSE IF a.isoDate = <<>> /\ b.isoDate # <<>> THEN -1
  ELSE IF a.isoDate # <<>> /\ b.isoDate = <<>> THEN 1
  ELSE localeCompare(a.committee, b.committee)

\* The comparator of sortRecords.
compareRecords(a, b) ==
  IF a.isoDate # <<>> /\ b.isoDate # <<>> /\ StrLess(a.isoDate, b.isoDate) THEN -1
  ELSE IF a.isoDate # <<>> /\ b.isoDate # <<>> /\ StrLess(b.isoDate, a.isoDate) THEN 1
  ELSE IF a.isoDate = <<>> /\ b.isoDate # <<>> THEN 1
  ELSE IF a.isoDate # <<>> /\ b.isoDate = <<>> THEN -1
  ELSE localeCompare(a.committee, b.committee)

\* Array.prototype.sort is stable: a record goes after the sorted records
\* that do not compare greater than it.
RECURSIVE insertSorted(_, _)
insertSorted(sorted, record) ==
  IF sorted = <<>> THEN <<record>>
  ELSE IF compareRecords(sorted[Len(sorted)], record) > 0
       THEN Append(insertSorted(SubSeq(sorted, 1, Len(sorted) - 1), record), sorted[Len(sorted)])
       ELSE Append(sorted, record)

RECURSIVE sortInto(_, _)
sortInto(sorted, records) ==
  IF records = <<>> THEN sorted
  ELSE sortInto(insertSorted(sorted, Head(records)), Tail(records))

sortRecords(records) == sortInto(<<>>, records)

\* ------------------------------------------------------------------------
\* The fetch stage (scripts/fetch.js)
\* ------------------------------------------------------------------------

fetchNorm(s) ==
  IF s = <<>> THEN <<>> ELSE Trim(CollapseRuns(ReplaceChars(s, {"nbsp"}, " "), JsSpace))

\* s.replace(/\b(a\.m\.|p\.m\.)\b/gi, m => m.toUpperCase().replace(/\./g, ''))
\* from the position i on: the match needs a word boundary before its
\* letter and one after its last dot.
RECURSIVE fetchMeridiemFrom(_, _)
fetchMeridiemFrom(s, i) ==
  With({k \in i..Len(s) :
          /\ MatchesAtCI(s, k, <<"a", ".", "m", ".">>) \/ MatchesAtCI(s, k, <<"p", ".", "m", ".">>)
          /\ WordBoundary(s, k)
          /\ WordBoundary(s, k + 4)}, LAMBDA hits :
    IF hits = {} THEN From(s, i)
    ELSE With(Least(hits), LAMBDA h :
           SubSeq(s, i, h - 1) \o <<UpperMap[s[h]], UpperMap[s[h + 2]]>>
             \o fetchMeridiemFrom(s, h + 4)))

fetchParseClock(s) == IF s = <<>> THEN <<>> ELSE fetchMeridiemFrom(fetchNorm(s), 1)

\* decode of the House row mapping: norm, then the five HTML entities.
decode(s) ==
  ReplaceAll(ReplaceAll(ReplaceAll(ReplaceAll(ReplaceAll(fetchNorm(s),
    <<"&", "a", "m", "p", ";">>, <<"&">>), <<"&", "l", "t", ";">>, <<"<">>), <<"&", "g", "t", ";">>, <<">">>), <<"&", "q", "u", "o", "t", ";">>, <<"\"">>), <<"&", "#", "3", "9", ";">>, <<"'">>)

HouseListSource == <<"H", "o", "u", "s", "e", " ", "A", "P", "I", " ", "(", "l", "i", "s", "t", ")">>

\* The House row mapping of main: the rows with a date, a time and a
\* committee, each reduced to six fields.
RECURSIVE mapHouseRows(_, _)
mapHouseRows(mapped, rows) ==
  IF rows = <<>> THEN mapped
  ELSE
    LET it == Head(rows)
        date == fetchNorm(Get(it, "date"))
        time == fetchParseClock(fetchNorm(Get(it, "time")))
        committee == fetchNorm(Get(it, "comm_name"))
        subject == decode(Get(it, "agenda"))
        venue == decode(Get(it, "venue"))
    IN IF date # <<>> /\ time # <<>> /\ committee # <<>>
       THEN mapHouseRows(Append(mapped, [date |-> date, time |-> time, committee |-> committee,
                                         subject |-> subject, venue |-> venue,
                                         source |-> HouseListSource]),
                         Tail(rows))
       ELSE mapHouseRows(mapped, Tail(rows))

\* The data rows of one day table of parseSenateSchedule, appended to out.
RECURSIVE scheduleRows(_, _, _)
scheduleRows(out, dayHeader, rows) ==
  IF rows = <<>> THEN out
  ELSE
    LET row == Head(rows)
        committeeCell == fetchNorm(row.committee)
        parts(fragments) ==
          SelectSeq([i \in 1..Len(fragments) |-> fetchNorm(fragments[i])],
                    LAMBDA part : part # <<>>)
        timeVenueParts == parts(row.timeVenue)
        time == IF timeVenueParts # <<>> THEN fetchParseClock(timeVenueParts[1]) ELSE <<>>
        venue == Trim(Join(Tail(IF timeVenueParts # <<>> THEN timeVenueParts ELSE <<<<>>>>),
                           <<" ">>))
        subject == Join(parts(row.agenda), <<";", " ">>)
    IN IF ContainsCI(committeeCell, <<"n", "o", " ", "c", "o", "m", "m", "i", "t", "t", "e", "e", " ", "h", "e", "a", "r", "i", "n", "g", "/", "m", "e", "e", "t", "i", "n", "g">>)
       THEN scheduleRows(out, dayHeader, Tail(rows))
       ELSE IF dayHeader # <<>> /\ time # <<>> /\ committeeCell # <<>>
       THEN scheduleRows(Append(out, [date |-> dayHeader, time |-> time,
                                      committee |-> committeeCell, subject |-> subject,
                                      venue |-> venue, source |-> SENATE_SOURCE]),
                         dayHeader, Tail(rows))
       ELSE scheduleRows(out, dayHeader, Tail(rows))

\* The rows parseSenateSchedule collects from the day tables, before its dedupe.
RECURSIVE scheduleTables(_, _)
scheduleTables(out, tables) ==
  IF tables = <<>> THEN out
  ELSE scheduleTables(scheduleRows(out, fetchNorm(Head(tables).dayHeader), Head(tables).rows),
                      Tail(tables))

parseSenateSchedule(html) == dedupe(scheduleTables(<<>>, html))

\* ------------------------------------------------------------------------
\* Inputs
\* ------------------------------------------------------------------------

\* The number of build runs the model follows.
MaxRuns == 2

\* A data row of a Senate day table.
HtmlRow(committee, timeVenue, agenda) ==
  [committee |-> committee, timeVenue |-> timeVenue, agenda |-> agenda]

DayTable(dayHeader, rows) == [dayHeader |-> dayHeader, rows |-> rows]

\* The Senate pages the fetch stage may download.
SenatePages ==
  { \* a day header without a year
    << DayTable(<<"T", "u", "e", "s", "d", "a", "y", ",", " ", "A", "u", "g", "u", "s", "t", " ", "1", "2">>,
                << HtmlRow(<<"F", "i", "n">>, <<<<"9", " ", "a", ".", "m", ".">>, <<"H", "a", "l", "l">>>>, <<<<"B", "u", "d">>>>) >>) >>,
    \* the same hearing under a header with its year, announced without a
    \* venue and without an agenda
    << DayTable(<<"T", "u", "e", "s", "d", "a", "y", ",", " ", "A", "u", "g", "u", "s", "t", " ", "1", "2", ",", " ", "2", "0", "2", "5">>,
                << HtmlRow(<<"F", "i", "n">>, <<<<"(", "9", " ", "A", "M", ")">>>>, <<>>) >>) >>,
    \* the same hearing twice, in two letter cases, around another hearing
    << DayTable(<<"T", "u", "e", "s", "d", "a", "y", ",", " ", "A", "u", "g", "u", "s", "t", " ", "1", "2", ",", " ", "2", "0", "2", "5">>,
                << HtmlRow(<<"F", "i", "n">>, <<<<"9", " ", "A", "M">>, <<"R", "o", "o", "m", " ", "1">>>>, <<<<"T", "a", "x">>>>),
                   HtmlRow(<<"W", "a", "y", "s">>, <<<<"2", " ", "P", "M">>>>, <<<<"B", "u", "d">>>>),
                   HtmlRow(<<" ", "F", "I", "N">>, <<<<"9", " ", "A", "M">>>>, <<<<"F", "e", "e">>>>) >>) >>,
    \* a day without hearings and a day with one
    << DayTable(<<"M", "o", "n", "d", "a", "y", ",", " ", "A", "u", "g", "u", "s", "t", " ", "1", "1", ",", " ", "2", "0", "2", "5">>,
                << HtmlRow(<<"N", "o", " ", "C", "o", "m", "m", "i", "t", "t", "e", "e", " ", "H", "e", "a", "r", "i", "n", "g", "/", "M", "e", "e", "t", "i", "n", "g">>, <<>>, <<>>) >>),
       DayTable(<<"A", "u", "g", " ", "1", "3", ",", " ", "2", "0", "2", "5">>,
                << HtmlRow(<<"W", "a", "y", "s">>, <<<<"1", ":", "3", "0", " ", "p", ".", "m", ".">>>>, <<<<"T", "a", "x">>, <<"F", "e", "e">>>>) >>) >>,
    \* a page without day tables
    <<>> }

\* What the Senate download yields: a page, or nothing (the request throws
\* or the site answers without an HTML document).
SenateDownloads ==
  {[ok |-> TRUE, html |-> page] : page \in SenatePages} \cup {[ok |-> FALSE, html |-> <<>>]}

\* The row lists the House API may answer with.
HouseRowLists ==
  { \* a cancelled meeting, listed twice
    << [date |-> <<"2", "0", "2", "5", "-", "0", "8", "-", "1", "2">>, time |-> <<"0", "1", ":", "3", "0", " ", "P", "M">>, comm_name |-> <<"F", "i", "n">>,
        agenda |-> <<"T", "a", "x", " ", "&", "a", "m", "p", ";", " ", "F", "e", "e">>, venue |-> <<"H", "a", "l", "l">>, cancelled |-> TRUE, id |-> <<"7">>],
       [date |-> <<"2", "0", "2", "5", "-", "0", "8", "-", "1", "2">>, time |-> <<"0", "1", ":", "3", "0", " ", "P", "M">>, comm_name |-> <<"F", "i", "n">>,
        agenda |-> <<"T", "a", "x">>, venue |-> <<>>, cancelled |-> TRUE, id |-> <<"8">>] >>,
    \* two meetings of one committee on one day, their times not yet set
    << [date |-> <<"2", "0", "2", "5", "-", "0", "8", "-", "1", "2">>, time |-> <<>>, comm_name |-> <<"W", "a", "y", "s">>,
        agenda |-> <<"B", "u", "d">>, venue |-> <<>>, cancelled |-> FALSE, id |-> <<"3">>],
       [date |-> <<"2", "0", "2", "5", "-", "0", "8", "-", "1", "2">>, time |-> <<>>, comm_name |-> <<"W", "a", "y", "s">>,
        agenda |-> <<"F", "e", "e">>, venue |-> <<>>, cancelled |-> FALSE, id |-> <<"4">>] >>,
    \* the Senate's hearing of the same day, time and committee name, a
    \* rescheduled meeting with a native timestamp, a meeting whose time is
    \* not yet set, a row without a committee, and a meeting whose time field
    \* was changed while its timestamp field still has the hour set before
    << [date |-> <<"2", "0", "2", "5", "-", "0", "8", "-", "1", "2">>, time |-> <<"9", " ", "A", "M">>, comm_name |-> <<"F", "i", "n">>,
        agenda |-> <<>>, venue |-> <<>>, cancelled |-> FALSE],
       [date |-> <<"2", "0", "2", "5", "-", "0", "8", "-", "1", "3">>, time |-> <<"1", "0", ":", "0", "0", " ", "a", ".", "m", ".">>, comm_name |-> <<"W", "a", "y", "s">>,
        agenda |-> <<>>, venue |-> <<"R", "o", "o", "m", " ", "1">>, cancelled |-> FALSE,
        resched |-> <<"A", "u", "g", " ", "1", "4">>, remarks |-> <<"M", "o", "v", "e", "d">>, datetime |-> <<"2", "0", "2", "5", "-", "0", "8", "-", "1", "3", "T", "1", "0", ":", "0", "0">>,
        onwards |-> TRUE],
       [date |-> <<"2", "0", "2", "5", "-", "0", "8", "-", "1", "4">>, time |-> <<>>, comm_name |-> <<"R", "u", "l", "e", "s">>,
        agenda |-> <<"B", "u", "d">>, venue |-> <<>>, cancelled |-> FALSE],
       [date |-> <<"2", "0", "2", "5", "-", "0", "8", "-", "1", "4">>, time |-> <<"9", " ", "A", "M">>, comm_name |-> <<>>,
        agenda |-> <<>>, venue |-> <<>>, cancelled |-> FALSE],
       [date |-> <<"2", "0", "2", "5", "-", "0", "8", "-", "1", "4">>, time |-> <<"0", "1", ":", "3", "0", " ", "P", "M">>, comm_name |-> <<"W", "a", "y", "s">>,
        agenda |-> <<>>, venue |-> <<>>, cancelled |-> FALSE,
        datetime |-> <<"2", "0", "2", "5", "-", "0", "8", "-", "1", "4", "T", "0", "9", ":", "0", "0">>] >> }

\* What the House API request yields: an envelope with rows, or nothing
\* (every attempt throws).
HouseResponses ==
  {[ok |-> TRUE, rows |-> rows] : rows \in HouseRowLists} \cup {[ok |-> FALSE, rows |-> <<>>]}

\* The saved copy of the Senate page that may lie in output/.
SavedPage ==
  << DayTable(<<"T", "u", "e", "s", "d", "a", "y", ",", " ", "A", "u", "g", "u", "s", "t", " ", "1", "2">>,
              << HtmlRow(<<"F", "i", "n">>, <<<<"9", " ", "a", ".", "m", ".">>, <<"H", "a", "l", "l">>>>, <<<<"B", "u", "d">>>>) >>),
     DayTable(<<"T", "h", "u", "r", "s", "d", "a", "y", ",", " ", "A", "u", "g", "u", "s", "t", " ", "1", "4", ",", " ", "2", "0", "2", "5">>,
              << HtmlRow(<<"W", "a", "y", "s">>, <<<<"2", " ", "p", ".", "m", ".">>>>, <<<<"F", "e", "e">>>>),
                 HtmlRow(<<"W", "a", "y", "s">>, <<<<"2", " ", "P", "M">>, <<"H", "a", "l", "l">>>>, <<>>) >>) >>

NoFile == [exists |-> FALSE, html |-> <<>>]

\* ------------------------------------------------------------------------
\* The build stage (scripts/build-static-data.js)
\* ------------------------------------------------------------------------

\* The JSON artifacts the build stage reads.  The text of one is missing,
\* blank, a JSON document (held by the variable of the file) or malformed.
Artifacts == {"house.json", "house_api_debug.json", "senate.json", "senate-history.json"}

NoFiles == [name \in Artifacts |-> "missing"]

\* readJson(filePath): whether it threw, whether it returned null, and the
\* value it returned otherwise.  JSON.parse throws on a malformed text, and
\* the catch clause rethrows every error but ENOENT.
readJson(name) ==
  CASE files[name] = "malformed" -> [threw |-> TRUE, null |-> FALSE, value |-> <<>>]
    [] files[name] \in {"missing", "blank"} -> [threw |-> FALSE, null |-> TRUE, value |-> <<>>]
    [] files[name] = "json" ->
         [threw |-> FALSE, null |-> FALSE,
          value |-> CASE name = "house.json" -> outHouse
                      [] name = "house_api_debug.json" -> outHouseDebug
                      [] name = "senate.json" -> outSenate
                      [] name = "senate-history.json" -> senateHistory]

loadHouseRecords ==
  IF readJson("house.json").value # <<>> THEN deriveHouseRecords(readJson("house.json").value)
  ELSE IF readJson("house_api_debug.json").value # <<>>
  THEN deriveHouseRecords(readJson("house_api_debug.json").value)
  ELSE <<>>

loadSenateRecords ==
  With(deriveSenateRecords(readJson("senate.json").value), LAMBDA fromJson :
    IF fromJson # <<>> THEN fromJson
    ELSE IF senateHtml.exists THEN deriveSenateRecordsFromHtml(senateHtml.html)
    ELSE <<>>)

\* The reduce over firstSeenAt as it would be if it kept the first value it
\* meets and never compared a later one with it.
RECURSIVE minFirstSeenKeepsFirst(_, _)
minFirstSeenKeepsFirst(min, records) ==
  IF records = <<>> THEN min
  ELSE LET at == Get(Head(records), "firstSeenAt")
       IN minFirstSeenKeepsFirst(IF at = <<>> THEN min
                                 ELSE IF min = <<>> THEN at
                                 ELSE min,
                                 Tail(records))

\* records.reduce over firstSeenAt: the least non-empty value, '' without one.
RECURSIVE minFirstSeen(_, _)
minFirstSeen(min, records) ==
  IF records = <<>> THEN min
  ELSE LET at == Get(Head(records), "firstSeenAt")
       IN minFirstSeen(IF at = <<>> THEN min
                       ELSE IF min = <<>> THEN at
                       ELSE IF StrLess(at, min) THEN at ELSE min,
                       Tail(records))

\* records.reduce over lastSeenAt: the greatest non-empty value, '' without one.
RECURSIVE maxLastSeen(_, _)
maxLastSeen(max, records) ==
  IF records = <<>> THEN max
  ELSE LET at == Get(Head(records), "lastSeenAt")
       IN maxLastSeen(IF at = <<>> THEN max
                      ELSE IF max = <<>> THEN at
                      ELSE IF StrLess(max, at) THEN at ELSE max,
                      Tail(records))

NoMerge == [current |-> <<>>, previous |-> <<>>, now |-> <<>>, out |-> <<>>]

NoCall == [op |-> "none", args |-> <<>>, done |-> TRUE, result |-> <<>>]

\* The page of docs/ as it is loaded: both chambers selected, no other
\* filter set.
Chambers == {HouseBranch, SenateBranch}

LoadedState ==
  [search |-> <<>>, branches |-> Chambers, startDate |-> <<>>, endDate |-> <<>>,
   showPast |-> FALSE]

\* The form controls as resetFilters leaves them: the value of each text and
\* date input, the chambers whose checkbox is checked (the value of a
\* chamber's checkbox is the chamber's name), the show-past checkbox.
LoadedElements ==
  [search |-> <<>>, checked |-> Chambers, startDate |-> <<>>, endDate |-> <<>>,
   showPast |-> FALSE]

\* The form controls when the page has loaded. The markup that sets them
\* (docs/index.html) is taken to agree with the script's initial state: both
\* chamber checkboxes checked, everything else empty.
InitialElements == LoadedElements

NoEvent == [type |-> "load", target |-> <<>>]

\* The page before any event.
PageLoaded ==
  /\ state = LoadedState
  /\ elements = InitialElements
  /\ filterCalls = 0
  /\ event = NoEvent

NoMetadata ==
  [generatedAt |-> <<>>,
   counts |-> [house |-> 0, senate |-> 0, all |-> 0],
   history |-> [entries |-> 0, firstSeenAt |-> <<>>, lastSeenAt |-> <<>>]]

Init ==
  /\ tz \in TimeZones
  /\ clock = 0
  /\ outHouse = <<>>
  /\ outHouseDebug = <<>>
  /\ outSenate = <<>>
  /\ senateHtml \in {NoFile, [exists |-> TRUE, html |-> SavedPage]}
  /\ dataHouse = <<>>
  /\ dataSenate = <<>>
  /\ dataAll = <<>>
  /\ senateHistory = <<>>
  /\ metadata = NoMetadata
  /\ scraped = <<>>
  /\ merge = NoMerge
  /\ call = NoCall
  /\ files = NoFiles
  /\ exitCode = 0
  /\ down = {}
  /\ PageLoaded

\* What main of the fetch stage leaves in output/house.json, output/senate.json
\* and what it scraped from the Senate page, tabulated per answer of the two
\* sites.
houseJson ==
  [api \in HouseResponses |->
     IF api.ok THEN dedupe(mapHouseRows(<<>>, api.rows)) ELSE <<>>]

senateJson ==
  [download \in SenateDownloads |->
     IF download.ok THEN parseSenateSchedule(download.html) ELSE <<>>]

senateScraped ==
  [download \in SenateDownloads |->
     IF download.ok THEN scheduleTables(<<>>, download.html) ELSE <<>>]

\* One run of the fetch stage: main of scripts/fetch.js.
Fetch(api, download) ==
  /\ outHouse' = houseJson[api]
  /\ outHouseDebug' = IF api.ok THEN api.rows ELSE outHouseDebug
  /\ outSenate' = senateJson[download]
  /\ scraped' = senateScraped[download]
  /\ files' = [files EXCEPT !["house.json"] = "json",
                            !["senate.json"] = "json",
                            !["house_api_debug.json"] = IF api.ok THEN "json" ELSE @]
  /\ down' = (IF api.ok THEN {} ELSE {HouseBranch}) \cup (IF download.ok THEN {} ELSE {SenateBranch})
  /\ UNCHANGED <<tz, clock, senateHtml, dataHouse, dataSenate, dataAll, senateHistory,
                 metadata, merge, call, exitCode, pageVars>>

\* Whether one of the reads of main throws: of house.json, of
\* house_api_debug.json when house.json gave no rows, of senate.json, of the
\* history file.  main has no try around them, and all come before its
\* first write.
mainThrows ==
  \/ readJson("house.json").threw
  \/ readJson("house.json").value = <<>> /\ readJson("house_api_debug.json").threw
  \/ readJson("senate.json").threw
  \/ readJson("senate-history.json").threw

\* One run of the build stage: main of scripts/build-static-data.js.  merge
\* keeps the arguments and the result of the run's call of mergeSenateHistory;
\* the files are written from the values main computed before.  A run whose
\* main throws writes nothing and sets the exit code.
Build ==
  /\ clock < MaxRuns
  /\ clock' = clock + 1
  /\ IF mainThrows
     THEN /\ exitCode' = 1
          /\ UNCHANGED <<dataHouse, dataSenate, dataAll, senateHistory, metadata, merge, files>>
     ELSE /\ merge' = With(loadSenateRecords, LAMBDA senateCurrentRaw :
                        [current |-> senateCurrentRaw,
                         previous |-> readJson("senate-history.json").value,
                         now |-> IsoTime(clock),
                         out |-> mergeSenateHistory(senateCurrentRaw,
                                                    readJson("senate-history.json").value)])
          /\ dataHouse' = sortRecords(decorateRecords(loadHouseRecords))
          /\ dataSenate' = sortRecords(decorateRecords(merge'.out))
          /\ dataAll' = sortRecords(dataHouse' \o dataSenate')
          /\ senateHistory' = dataSenate'
          /\ metadata' = [generatedAt |-> IsoTime(clock),
                          counts |-> [house |-> Len(dataHouse'), senate |-> Len(dataSenate'),
                                      all |-> Len(dataAll')],
                          history |-> [entries |-> Len(dataSenate'),
                                       firstSeenAt |-> minFirstSeen(<<>>, dataSenate'),
                                       lastSeenAt |-> maxLastSeen(<<>>, dataSenate')]]
          /\ exitCode' = 0
          /\ files' = [files EXCEPT !["senate-history.json"] = "json"]
  /\ UNCHANGED <<tz, outHouse, outHouseDebug, outSenate, senateHtml, scraped, call, down,
                 pageVars>>

Next ==
  \/ \E api \in HouseResponses, download \in SenateDownloads : Fetch(api, download)
  \/ Build

Spec == Init /\ [][Next]_vars

\* The pipeline while the House API is unreachable: every fetch run ends with
\* an empty output/house.json, and the Senate side runs as always.
HouseDown == [ok |-> FALSE, rows |-> <<>>]

NextSenate ==
  \/ \E download \in SenateDownloads : Fetch(HouseDown, download)
  \/ Build

SpecSenate == Init /\ [][NextSenate]_vars

\* The pipeline started on artifacts left by earlier runs or by hand: each
\* of them missing, blank or malformed.
InitFiles ==
  /\ tz \in TimeZones
  /\ clock = 0
  /\ outHouse = <<>>
  /\ outHouseDebug = <<>>
  /\ outSenate = <<>>
  /\ senateHtml \in {NoFile, [exists |-> TRUE, html |-> SavedPage]}
  /\ dataHouse = <<>>
  /\ dataSenate = <<>>
  /\ dataAll = <<>>
  /\ senateHistory = <<>>
  /\ metadata = NoMetadata
  /\ scraped = <<>>
  /\ merge = NoMerge
  /\ call = NoCall
  /\ files \in [Artifacts -> {"missing", "blank", "malformed"}]
  /\ exitCode = 0
  /\ down = {}
  /\ PageLoaded

SpecFiles == InitFiles /\ [][NextSenate]_vars

\* ------------------------------------------------------------------------
\* The static list page (docs/app.js)
\* ------------------------------------------------------------------------

\* The greatest number of calls of applyFilters the model follows.
MaxFilterCalls == 3

\* applyFilters(): the list is filtered and rendered once more.
applyFilters == filterCalls' = filterCalls + 1

\* The user's action on a control changes the control and dispatches the
\* event; the page's data files stay as they are.
Dispatch(type, target) ==
  /\ filterCalls < MaxFilterCalls
  /\ event' = [type |-> type, target |-> target]
  /\ UNCHANGED <<tz, clock, outHouse, outHouseDebug, outSenate, senateHtml, dataHouse,
                 dataSenate, dataAll, senateHistory, metadata, scraped, merge, call, files,
                 exitCode, down>>

\* The change handler of a chamber's checkbox as it would be if it filtered
\* again after putting the last chamber back.
BranchChangeRefilters(chamber) ==
  /\ Dispatch("change", chamber)
  /\ LET checked == IF chamber \in elements.checked THEN elements.checked \ {chamber}
                    ELSE elements.checked \cup {chamber}
         branches == IF chamber \in checked THEN state.branches \cup {chamber}
                     ELSE state.branches \ {chamber}
     IN IF branches = {}
        THEN /\ state' = [state EXCEPT !.branches = {chamber}]
             /\ elements' = [elements EXCEPT !.checked = checked \cup {chamber}]
             /\ applyFilters
        ELSE /\ state' = [state EXCEPT !.branches = branches]
             /\ elements' = [elements EXCEPT !.checked = checked]
             /\ applyFilters

\* The user clicks the checkbox of chamber, which toggles it, and the change
\* handler of the checkbox runs.
BranchChange(chamber) ==
  /\ Dispatch("change", chamber)
  /\ LET checked == IF chamber \in elements.checked THEN elements.checked \ {chamber}
                    ELSE elements.checked \cup {chamber}
         branches == IF chamber \in checked THEN state.branches \cup {chamber}
                     ELSE state.branches \ {chamber}
     IN IF branches = {}
        THEN /\ state' = [state EXCEPT !.branches = {chamber}]
             /\ elements' = [elements EXCEPT !.checked = checked \cup {chamber}]
             /\ UNCHANGED filterCalls
        ELSE /\ state' = [state EXCEPT !.branches = branches]
             /\ elements' = [elements EXCEPT !.checked = checked]
             /\ applyFilters

\* The click handler of the reset button.
resetFilters ==
  /\ Dispatch("click", <<"r", "e", "s", "e", "t", "-", "f", "i", "l", "t", "e", "r", "s">>)
  /\ state' = LoadedState
  /\ elements' = LoadedElements
  /\ applyFilters

\* The user types text into the search box, or picks a start or an end
\* date; the handler of the control runs.
FilterInput(field, value) ==
  /\ Dispatch(IF field = "search" THEN "input" ELSE "change",
              CASE field = "search" -> <<"s", "e", "a", "r", "c", "h", "-", "i", "n", "p", "u", "t">>
                [] field = "startDate" -> <<"s", "t", "a", "r", "t", "-", "d", "a", "t", "e">>
                [] field = "endDate" -> <<"e", "n", "d", "-", "d", "a", "t", "e">>)
  /\ elements' = [elements EXCEPT ![field] = value]
  /\ state' = [state EXCEPT ![field] = IF field = "search" THEN toLowerCase(Trim(value))
                                        ELSE value]
  /\ applyFilters

\* The user toggles the show-past checkbox.
ShowPastChange ==
  /\ Dispatch("change", <<"s", "h", "o", "w", "-", "p", "a", "s", "t">>)
  /\ elements' = [elements EXCEPT !.showPast = ~elements.showPast]
  /\ state' = [state EXCEPT !.showPast = ~elements.showPast]
  /\ applyFilters

InitPage ==
  /\ tz = "utc"
  /\ clock = 0
  /\ outHouse = <<>>
  /\ outHouseDebug = <<>>
  /\ outSenate = <<>>
  /\ senateHtml = NoFile
  /\ dataHouse = <<>>
  /\ dataSenate = <<>>
  /\ dataAll = <<>>
  /\ senateHistory = <<>>
  /\ metadata = NoMetadata
  /\ scraped = <<>>
  /\ merge = NoMerge
  /\ call = NoCall
  /\ files = NoFiles
  /\ exitCode = 0
  /\ down = {}
  /\ PageLoaded

NextPage ==
  \/ \E chamber \in Chambers : BranchChange(chamber)
  \/ resetFilters
  \/ \E value \in { <<>>, <<"T", "a", "x">>, <<" ", "f", "i", "n", " ">> } : FilterInput("search", value)
  \/ \E field \in {"startDate", "endDate"}, value \in { <<>>, <<"2", "0", "2", "5", "-", "0", "8", "-", "1", "2">> } :
       FilterInput(field, value)
  \/ ShowPastChange

SpecPage == InitPage /\ [][NextPage]_vars

\* ------------------------------------------------------------------------
\* The record merge of the front end (src/lib/load-events.ts)
\* ------------------------------------------------------------------------

hasMeaningfulValue(value) == Trim(value) # <<>>

normalizeText(value) == Trim(CollapseRuns(value, JsSpace))

\* The chamber a branch text names, '' for null.
normalizeBranch(branch) ==
  With(toLowerCase(Trim(branch)), LAMBDA normalized :
    IF normalized = <<"s", "e", "n", "a", "t", "e">> \/ Slice(normalized, 0, 7) = <<"s", "e", "n", "a", "t", "e", " ">> THEN SenateBranch
    ELSE IF Slice(normalized, 0, 5) = <<"h", "o", "u", "s", "e">> THEN HouseBranch
    ELSE <<>>)

getRecordKey(record) ==
  IF hasMeaningfulValue(Get(record, "id")) THEN toLowerCase(Get(record, "id"))
  ELSE toLowerCase(Or(normalizeBranch(Get(record, "branch")), <<"u", "n", "k", "n", "o", "w", "n", "-", "b", "r", "a", "n", "c", "h">>)
                   \o <<":">> \o Or(normalizeText(Get(record, "committee")), <<"u", "n", "k", "n", "o", "w", "n", "-", "c", "o", "m", "m", "i", "t", "t", "e", "e">>)
                   \o <<":">> \o Or(normalizeText(Get(record, "date")), <<"u", "n", "k", "n", "o", "w", "n", "-", "d", "a", "t", "e">>))

\* mergeRecord(primary, fallback): the primary record with its empty fields
\* taken from the fallback.
mergeRecord(primary, fallback) ==
  [key \in DOMAIN primary \cup DOMAIN fallback |->
     IF key \in DOMAIN primary /\ hasMeaningfulValue(primary[key]) THEN primary[key]
     ELSE IF key \in DOMAIN fallback /\ hasMeaningfulValue(fallback[key]) THEN fallback[key]
     ELSE Get(primary, key)]

RECURSIVE mergeInto(_, _, _)
mergeInto(merged, records, fallback) ==
  IF records = <<>> THEN merged
  ELSE With(getRecordKey(Head(records)), LAMBDA key :
         mergeInto(MapSet(merged, key,
                          IF fallback /\ MapHas(merged, key)
                          THEN mergeRecord(MapGet(merged, key), Head(records))
                          ELSE Head(records)),
                   Tail(records), fallback))

mergeRecords(baseRecords, fallbackRecords) ==
  MapValues(mergeInto(mergeInto(<<>>, baseRecords, FALSE), fallbackRecords, TRUE))

\* ------------------------------------------------------------------------
\* Properties of the Senate history
\* ------------------------------------------------------------------------

\* The dedup keys lowercase(date|time|committee) of a list of records.
KeysOf(records) == {recordKey(records[i]) : i \in 1..Len(records)}

\* No two records of the list have the same dedup key.
NoDuplicateKeys(records) ==
  \A i, j \in 1..Len(records) : recordKey(records[i]) = recordKey(records[j]) => i = j

\* The earlier and the later of two timestamps.
Earlier(a, b) == IF StrLess(b, a) THEN b ELSE a

Later(a, b) == IF StrLess(a, b) THEN b ELSE a

\* The fields that describe a hearing.
ContentFields ==
  {"id", "branch", "committee", "date", "time", "venue", "agenda", "status", "notes",
   "isoDate", "source", "dateLabel"}

\* C1: a dedup key that is in the history file after some run is still in the
\* history file after every later run, whatever the later scrapes contain.
C1_HistoryKeysPersist == [][KeysOf(senateHistory) \subseteq KeysOf(senateHistory')]_vars

\* C2: in mergeSenateHistory(current, previous), a record whose key occurs in
\* previous but not in current is in the output with the firstSeenAt and the
\* lastSeenAt it had in previous and with its content fields unchanged.
C2_PreviousOnlyCarriedUnchanged ==
  \A i \in 1..Len(merge.previous) :
    recordKey(merge.previous[i]) \notin KeysOf(merge.current)
      => \E j \in 1..Len(merge.out) :
           /\ recordKey(merge.out[j]) = recordKey(merge.previous[i])
           /\ \A f \in ContentFields \cup {"firstSeenAt", "lastSeenAt"} :
                Get(merge.out[j], f) = Get(merge.previous[i], f)

\* C3: every dedup key lowercase(date|time|committee) present in current or
\* in previous appears exactly once in the output of mergeSenateHistory.
C3_MergeKeyComplete ==
  /\ KeysOf(merge.current) \cup KeysOf(merge.previous) \subseteq KeysOf(merge.out)
  /\ NoDuplicateKeys(merge.out)

\* C4: in mergeSenateHistory, for a key present in both current and previous
\* and for every field: if the field is non-empty in the previous record and
\* empty in the current record, the merged record has the previous value.
C4_MergeKeepsNonEmptyFields ==
  \A i \in 1..Len(merge.previous), k \in 1..Len(merge.current) :
    recordKey(merge.previous[i]) = recordKey(merge.current[k])
      => \E j \in 1..Len(merge.out) :
           /\ recordKey(merge.out[j]) = recordKey(merge.previous[i])
           /\ \A f \in {"venue", "agenda", "status", "notes", "dateLabel", "source"} :
                Get(merge.previous[i], f) # <<>> /\ Get(merge.current[k], f) = <<>>
                  => Get(merge.out[j], f) = Get(merge.previous[i], f)

\* C5: in mergeSenateHistory, for a key present in both previous and current,
\* the merged record's firstSeenAt is the earlier of the previous record's
\* firstSeenAt and the run time, and its lastSeenAt the later of the previous
\* record's lastSeenAt and the run time.
C5_MergedTimestampsMinMax ==
  \A i \in 1..Len(merge.previous), k \in 1..Len(merge.current) :
    recordKey(merge.previous[i]) = recordKey(merge.current[k])
      => \E j \in 1..Len(merge.out) :
           /\ recordKey(merge.out[j]) = recordKey(merge.previous[i])
           /\ Get(merge.out[j], "firstSeenAt")
                = Earlier(Get(merge.previous[i], "firstSeenAt"), merge.now)
           /\ Get(merge.out[j], "lastSeenAt")
                = Later(Get(merge.previous[i], "lastSeenAt"), merge.now)

\* C6: in mergeSenateHistory, a record whose key occurs only in the current
\* scrape is inserted with firstSeenAt = lastSeenAt = the run's timestamp.
C6_NewKeyStampedNow ==
  \A k \in 1..Len(merge.current) :
    recordKey(merge.current[k]) \notin KeysOf(merge.previous)
      => \E j \in 1..Len(merge.out) :
           /\ recordKey(merge.out[j]) = recordKey(merge.current[k])
           /\ Get(merge.out[j], "firstSeenAt") = merge.now
           /\ Get(merge.out[j], "lastSeenAt") = merge.now

\* ------------------------------------------------------------------------
\* Properties of the dedupe step, the canonical outputs and the date resolver
\* ------------------------------------------------------------------------

\* The positions of rows that hold the first record of their key.
FirstOccurrences(rows) ==
  {i \in 1..Len(rows) : \A j \in 1..(i - 1) : recordKey(rows[j]) # recordKey(rows[i])}

\* out is rows reduced to the first record of each key, in the order of rows.
IsFirstOccurrenceList(out, rows) ==
  /\ NoDuplicateKeys(out)
  /\ Len(out) = Cardinality(FirstOccurrences(rows))
  /\ \A k \in 1..Len(out) :
       out[k] = rows[CHOOSE i \in FirstOccurrences(rows) :
                       Cardinality({j \in FirstOccurrences(rows) : j <= i}) = k]

\* C7: the dedupe step returns a list with no two records of equal key that
\* is the input reduced to the first occurrence of each key, in input order;
\* in the fetch stage (senate.json from the scraped rows) and in the HTML
\* adapter of the build stage.
C7_DedupeKeepsFirstOccurrences ==
  /\ IsFirstOccurrenceList(outSenate, scraped)
  /\ senateHtml.exists
       => IsFirstOccurrenceList(deriveSenateRecordsFromHtml(senateHtml.html),
                                htmlTables(<<>>, senateHtml.html))

\* A scrape in which a key occurs again after a record of another key, and
\* a saved page whose rows repeat a key.
C7_Witness ==
  /\ Len(outSenate) >= 2
  /\ Len(scraped) > Len(outSenate)
  /\ \E i \in 1..Len(scraped) : i \notin FirstOccurrences(scraped) /\ i > 2
  /\ senateHtml.exists
  /\ Len(htmlTables(<<>>, senateHtml.html)) > Len(deriveSenateRecordsFromHtml(senateHtml.html))

\* C8: in house.json, senate.json and all.json as the build stage writes
\* them, no two records have the same case-insensitive (date, time,
\* committee) key.
C8_CanonicalOutputsHaveUniqueKeys ==
  /\ NoDuplicateKeys(dataHouse)
  /\ NoDuplicateKeys(dataSenate)
  /\ NoDuplicateKeys(dataAll)

\* C9: every Senate record in the canonical output has a date of the form
\* YYYY-MM-DD; a row whose day label cannot be resolved gives no record.
C9_SenateDatesAreIso ==
  \A i \in 1..Len(dataSenate) : IsIsoDate(Get(dataSenate[i], "date"))

\* The year the build runs in.
CurrentYear == SubSeq(IsoTime(clock), 1, 4)

\* date is a YYYY-MM-DD date of the year year.
IsDateInYear(date, year) == IsIsoDate(date) /\ SubSeq(date, 1, 4) = year

\* Labels of the form '<Weekday>, <Month> <Day>'.
WeekdayLabels ==
  { <<"T", "u", "e", "s", "d", "a", "y", ",", " ", "A", "u", "g", "u", "s", "t", " ", "1", "2">>, <<"M", "o", "n", "d", "a", "y", ",", " ", "M", "a", "r", "c", "h", " ", "3">>, <<"F", "r", "i", "d", "a", "y", ",", " ", "D", "e", "c", "e", "m", "b", "e", "r", " ", "2", "6">> }

\* C10: for a label '<Weekday>, <Month> <Day>' without a year the date
\* resolver returns a date of the supplied fallbackYear, or of the current
\* year when none is supplied, never ''; a day block of the saved page under
\* such a header yields its data rows.
C10_LabelWithoutYearResolves ==
  /\ \A label \in WeekdayLabels :
       /\ IsDateInYear(parseSenateDate(label, <<"2", "0", "2", "4">>), <<"2", "0", "2", "4">>)
       /\ IsDateInYear(parseSenateDate(label, <<>>), CurrentYear)
  /\ senateHtml.exists
       => \A t \in 1..Len(senateHtml.html) :
            norm(senateHtml.html[t].dayHeader) \in WeekdayLabels
              => \E i \in 1..Len(deriveSenateRecordsFromHtml(senateHtml.html)) :
                   /\ deriveSenateRecordsFromHtml(senateHtml.html)[i].committee
                        = norm(senateHtml.html[t].rows[1].committee)
                   /\ IsDateInYear(deriveSenateRecordsFromHtml(senateHtml.html)[i].date,
                                   CurrentYear)

\* ------------------------------------------------------------------------
\* The second script of scripts/fetch.js (from its line 299 on): its own
\* copies of parseClock, parseSenateDate and deriveSenateRecordsFromHtml
\* ------------------------------------------------------------------------

\* s with the characters at the positions of drop left out.
DropAt(s, drop) ==
  IF s = <<>> THEN <<>> ELSE
  With(SelectSeq([i \in 1..Len(s) |-> i], LAMBDA i : i \notin drop), LAMBDA kept :
    Tuple([k \in 1..Len(kept) |-> s[kept[k]]]))

\* parseClock of the second script: a.m. and p.m. become AM and PM only where
\* a word boundary stands before the first letter and after the last period,
\* which is where a letter, a digit or an underscore follows the period.
parseClockAlt(value) ==
  With(norm(value), LAMBDA normalized :
    IF normalized = <<>> THEN <<>>
    ELSE
      With({i \in 1..Len(normalized) :
              /\ \/ MatchesAtCI(normalized, i, <<"a", ".", "m", ".">>)
                 \/ MatchesAtCI(normalized, i, <<"p", ".", "m", ".">>)
              /\ WordBoundary(normalized, i)
              /\ WordBoundary(normalized, i + 4)}, LAMBDA hits :
        DropAt(Tuple([k \in 1..Len(normalized) |->
                        IF \E h \in hits : k \in {h, h + 2}
                        THEN UpperMap[normalized[k]] ELSE normalized[k]]),
               {h + 1 : h \in hits} \cup {h + 3 : h \in hits})))

\* The keys of MONTH_NAME_MAP and the month name each stands for.
MONTH_NAME_MAP ==
  { [key |-> <<"j", "a", "n">>, name |-> <<"J", "a", "n", "u", "a", "r", "y">>], [key |-> <<"j", "a", "n", "u", "a", "r", "y">>, name |-> <<"J", "a", "n", "u", "a", "r", "y">>],
    [key |-> <<"f", "e", "b">>, name |-> <<"F", "e", "b", "r", "u", "a", "r", "y">>], [key |-> <<"f", "e", "b", "r", "u", "a", "r", "y">>, name |-> <<"F", "e", "b", "r", "u", "a", "r", "y">>],
    [key |-> <<"m", "a", "r">>, name |-> <<"M", "a", "r", "c", "h">>], [key |-> <<"m", "a", "r", "c", "h">>, name |-> <<"M", "a", "r", "c", "h">>],
    [key |-> <<"a", "p", "r">>, name |-> <<"A", "p", "r", "i", "l">>], [key |-> <<"a", "p", "r", "i", "l">>, name |-> <<"A", "p", "r", "i", "l">>],
    [key |-> <<"m", "a", "y">>, name |-> <<"M", "a", "y">>],
    [key |-> <<"j", "u", "n">>, name |-> <<"J", "u", "n", "e">>], [key |-> <<"j", "u", "n", "e">>, name |-> <<"J", "u", "n", "e">>],
    [key |-> <<"j", "u", "l">>, name |-> <<"J", "u", "l", "y">>], [key |-> <<"j", "u", "l", "y">>, name |-> <<"J", "u", "l", "y">>],
    [key |-> <<"a", "u", "g">>, name |-> <<"A", "u", "g", "u", "s", "t">>], [key |-> <<"a", "u", "g", "u", "s", "t">>, name |-> <<"A", "u", "g", "u", "s", "t">>],
    [key |-> <<"s", "e", "p">>, name |-> <<"S", "e", "p", "t", "e", "m", "b", "e", "r">>], [key |-> <<"s", "e", "p", "t">>, name |-> <<"S", "e", "p", "t", "e", "m", "b", "e", "r">>],
    [key |-> <<"s", "e", "p", "t", "e", "m", "b", "e", "r">>, name |-> <<"S", "e", "p", "t", "e", "m", "b", "e", "r">>],
    [key |-> <<"o", "c", "t">>, name |-> <<"O", "c", "t", "o", "b", "e", "r">>], [key |-> <<"o", "c", "t", "o", "b", "e", "r">>, name |-> <<"O", "c", "t", "o", "b", "e", "r">>],
    [key |-> <<"n", "o", "v">>, name |-> <<"N", "o", "v", "e", "m", "b", "e", "r">>], [key |-> <<"n", "o", "v", "e", "m", "b", "e", "r">>, name |-> <<"N", "o", "v", "e", "m", "b", "e", "r">>],
    [key |-> <<"d", "e", "c">>, name |-> <<"D", "e", "c", "e", "m", "b", "e", "r">>], [key |-> <<"d", "e", "c", "e", "m", "b", "e", "r">>, name |-> <<"D", "e", "c", "e", "m", "b", "e", "r">>] }

\* s.match(/([A-Za-z\.]+)\s+(\d{1,2})(?:,?\s*(\d{4}))?/): as the match of the
\* build script, but a word may hold periods.
MonthDayMatchAlt(s) ==
  With(UpperSet \cup LowerSet \cup {"."}, LAMBDA word :
  With({i \in 1..Len(s) :
          /\ s[i] \in word
          /\ With(SkipSet(s, i, word), LAMBDA e :
              With(SkipSet(s, e, JsSpace), LAMBDA w :
                w > e /\ w <= Len(s) /\ IsDigit(s[w])))}, LAMBDA starts :
    IF starts = {} THEN [ok |-> FALSE]
    ELSE
      With(Least(starts), LAMBDA i :
      With(SkipSet(s, i, word), LAMBDA e :
      With(SkipSet(s, e, JsSpace), LAMBDA d :
      With(IF d + 1 <= Len(s) /\ IsDigit(s[d + 1]) THEN d + 2 ELSE d + 1, LAMBDA dEnd :
      With(IF dEnd <= Len(s) /\ s[dEnd] = "," THEN dEnd + 1 ELSE dEnd, LAMBDA c :
      With(SkipSet(s, c, JsSpace), LAMBDA y :
      With(y + 3 <= Len(s) /\ \A k \in 0..3 : IsDigit(s[y + k]), LAMBDA hasYear :
        [ok |-> TRUE,
         rawMonth |-> SubSeq(s, i, e - 1),
         day |-> SubSeq(s, d, dEnd - 1),
         year |-> IF hasYear THEN SubSeq(s, y, y + 3) ELSE <<>>])))))))))

\* parseSenateDate of the second script.  A header in which no month and day
\* are found goes to new Date(cleaned); the headers of the model that take
\* this way ('TBA', a day name alone) are no dates for Date either.
parseSenateDateAlt(headerText) ==
  LET \* s.replace(/\b(\d{1,2})(st|nd|rd|th)\b/gi, '$1')
      StripOrdinals(s) ==
        DropAt(s, UNION {{j, j + 1} : j \in {j \in 2..(Len(s) - 1) :
          /\ \E suffix \in { <<"s", "t">>, <<"n", "d">>, <<"r", "d">>, <<"t", "h">> } : MatchesAtCI(s, j, suffix)
          /\ WordBoundary(s, j + 2)
          /\ IsDigit(s[j - 1])
          /\ \/ WordBoundary(s, j - 1)
             \/ j >= 3 /\ IsDigit(s[j - 2]) /\ WordBoundary(s, j - 2)}})
  IN
  With(norm(headerText), LAMBDA text :
  With(IF text = <<>> THEN <<>> ELSE StripOrdinals(StripTrailingParen(text)), LAMBDA cleaned :
    IF cleaned = <<>> THEN <<>>
    ELSE IF IsIsoDate(cleaned) THEN cleaned
    ELSE
      With(MonthDayMatchAlt(DropWeekday(cleaned)), LAMBDA match :
        IF ~match.ok THEN <<>>
        ELSE
          With(toLowerCase(IF match.rawMonth[Len(match.rawMonth)] = "."
                           THEN SubSeq(match.rawMonth, 1, Len(match.rawMonth) - 1)
                           ELSE match.rawMonth), LAMBDA monthKey :
            IF \A entry \in MONTH_NAME_MAP : entry.key # monthKey THEN <<>>
            ELSE LocalDateToIso((CHOOSE entry \in MONTH_NAME_MAP : entry.key = monthKey).name,
                                match.day,
                                IF match.year # <<>> THEN match.year ELSE CurrentYear,
                                tz)))))

\* The data rows of one day table in the second script, appended to records:
\* the row is dropped when its committee is empty or a notice, when the day
\* has no date, or when its key is already among the records.
RECURSIVE htmlRowsAlt(_, _, _)
htmlRowsAlt(records, isoDate, rows) ==
  IF rows = <<>> THEN records
  ELSE
    LET row == Head(rows)
        committee == norm(row.committee)
        timeVenueParts == cellParts(row.timeVenue)
        agendaParts == cellParts(row.agenda)
        time == parseClockAlt(IF timeVenueParts # <<>> THEN timeVenueParts[1] ELSE <<>>)
        venue == Join(Tail(IF timeVenueParts # <<>> THEN timeVenueParts ELSE <<<<>>>>), <<" ">>)
        agenda == Join(agendaParts, <<";", " ">>)
        record == [id |-> SenateIdPrefix \o NumStr(Len(records) + 1),
                   branch |-> SenateBranch,
                   committee |-> committee,
                   date |-> isoDate,
                   time |-> time,
                   venue |-> venue,
                   agenda |-> agenda,
                   status |-> Scheduled,
                   notes |-> <<>>,
                   isoDate |-> toIso(isoDate, time),
                   source |-> SENATE_SOURCE]
    IN IF committee = <<>> THEN htmlRowsAlt(records, isoDate, Tail(rows))
       ELSE IF ContainsCI(committee, <<"n", "o", " ", "c", "o", "m", "m", "i", "t", "t", "e", "e", " ", "h", "e", "a", "r", "i", "n", "g">>)
       THEN htmlRowsAlt(records, isoDate, Tail(rows))
       ELSE IF isoDate = <<>> THEN htmlRowsAlt(records, isoDate, Tail(rows))
       ELSE IF recordKey(record) \in KeysOf(records)
       THEN htmlRowsAlt(records, isoDate, Tail(rows))
       ELSE htmlRowsAlt(Append(records, record), isoDate, Tail(rows))

deriveSenateRecordsFromHtmlAlt(html) ==
  LET RECURSIVE eachTable(_, _)
      eachTable(records, tables) ==
        IF tables = <<>> THEN records
        ELSE eachTable(htmlRowsAlt(records, parseSenateDateAlt(norm(Head(tables).dayHeader)),
                                   Head(tables).rows),
                       Tail(tables))
  IN eachTable(<<>>, html)

\* ------------------------------------------------------------------------
\* The helper functions called on their own
\* ------------------------------------------------------------------------

\* A call that has not run yet, and the step that runs it: the call leaves
\* the files as they are and records its result.
Pending(op, args) == [op |-> op, args |-> args, done |-> FALSE, result |-> <<>>]

Returns(result) ==
  /\ ~call.done
  /\ call' = [call EXCEPT !.done = TRUE, !.result = result]
  /\ UNCHANGED <<tz, clock, outHouse, outHouseDebug, outSenate, senateHtml, dataHouse,
                 dataSenate, dataAll, senateHistory, metadata, scraped, merge, files,
                 exitCode, down, pageVars>>

\* The call has run, of the function op.
Returned(op) == call.op = op /\ call.done

\* Dates that are already of the form YYYY-MM-DD.
IsoDates == { <<"2", "0", "2", "5", "-", "0", "8", "-", "1", "2">>, <<"2", "0", "2", "4", "-", "0", "2", "-", "2", "9">>, <<"2", "0", "2", "5", "-", "0", "1", "-", "0", "1">>, <<"2", "0", "2", "5", "-", "1", "2", "-", "3", "1">> }

\* Day labels that name a month and a day, with the year in the label or
\* supplied as fallbackYear, and the calendar day each of them names.
DatedLabels ==
  { [label |-> <<"T", "u", "e", "s", "d", "a", "y", ",", " ", "A", "u", "g", "u", "s", "t", " ", "1", "2", ",", " ", "2", "0", "2", "5">>, year |-> <<>>, names |-> <<"2", "0", "2", "5", "-", "0", "8", "-", "1", "2">>],
    [label |-> <<"W", "e", "d", "n", "e", "s", "d", "a", "y", ",", " ", "J", "a", "n", "u", "a", "r", "y", " ", "1", ",", " ", "2", "0", "2", "5">>, year |-> <<>>, names |-> <<"2", "0", "2", "5", "-", "0", "1", "-", "0", "1">>],
    [label |-> <<"F", "r", "i", "d", "a", "y", ",", " ", "M", "a", "r", "c", "h", " ", "1", " ", "2", "0", "2", "4", " ", "(", "W", "e", "e", "k", " ", "9", ")">>, year |-> <<>>, names |-> <<"2", "0", "2", "4", "-", "0", "3", "-", "0", "1">>],
    [label |-> <<"W", "e", "e", "k", " ", "o", "f", " ", "M", "o", "n", "d", "a", "y", ",", " ", "M", "a", "r", " ", "3", ",", " ", "2", "0", "2", "5">>, year |-> <<>>, names |-> <<"2", "0", "2", "5", "-", "0", "3", "-", "0", "3">>],
    [label |-> <<"F", "r", "i", "d", "a", "y", ",", " ", "D", "e", "c", "e", "m", "b", "e", "r", " ", "2", "6">>, year |-> <<"2", "0", "2", "5">>, names |-> <<"2", "0", "2", "5", "-", "1", "2", "-", "2", "6">>],
    [label |-> <<"T", "h", "u", "r", "s", "d", "a", "y", ",", " ", "S", "e", "p", "t", " ", "4">>, year |-> <<"2", "0", "2", "5">>, names |-> <<"2", "0", "2", "5", "-", "0", "9", "-", "0", "4">>] }

\* The arguments of parseSenateDate: the dates, the labels, and labels it
\* cannot resolve.
ResolverInputs ==
  {<<d, y>> : d \in IsoDates, y \in {<<>>, <<"2", "0", "2", "4">>}}
    \cup {<<c.label, c.year>> : c \in DatedLabels}
    \cup {<<l, <<>>>> : l \in { <<"T", "B", "A">>, <<"T", "u", "e", "s", "d", "a", "y", ",", " ", "A", "u", "g", "u", "s", "t", " ", "1", "2">>, <<"M", "o", "n", "d", "a", "y", ",", " ", "F", "o", "o", " ", "3", ",", " ", "2", "0", "2", "5">>, <<>> }}

CallParseSenateDate ==
  /\ call.op = "parseSenateDate"
  /\ Returns(parseSenateDate(call.args[1], call.args[2]))

\* Records of senate.json and of the history file, by their date fields.
DateRecords ==
  {[date |-> d] : d \in IsoDates}
    \cup {[date |-> <<>>, dateLabel |-> d] : d \in IsoDates}
    \cup {[date |-> c.label, capturedAt |-> <<"2", "0", "2", "5", "-", "0", "8", "-", "1", "0", "T", "0", "6", ":", "0", "0", ":", "0", "0", ".", "0", "0", "0", "Z">>] : c \in DatedLabels}

CallNormalizeSenateDate ==
  /\ call.op = "normalizeSenateDate"
  /\ Returns(normalizeSenateDate(call.args[1]))

\* Date strings that are not of the form YYYY-MM-DD.
OtherDates ==
  { <<"A", "u", "g", " ", "2", "0", "2", "5", "-", "0", "8", "-", "1", "2">>, <<"2", "0", "2", "5", "-", "0", "8", "-", "1", "2", "T", "1", "0", ":", "0", "0">>, <<"2", "0", "2", "5", "-", "0", "8", "-", "1", "2", "3">>, <<"T", "u", "e", "s", "d", "a", "y", ",", " ", "A", "u", "g", "u", "s", "t", " ", "1", "2">>,
    <<"2", "0", "2", "5", "-", "8", "-", "1", "2">>, <<>> }

\* The hours and the minutes of a clock time as they are written, and the
\* two meridiems.
ClockParts ==
  [hours |-> { <<"1">>, <<"0", "1">>, <<"9">>, <<"1", "1">>, <<"1", "2">> },
   minutes |-> { <<>>, <<"0", "0">>, <<"3", "0">> },
   meridiems |-> { <<"A", "M">>, <<"P", "M">> }]

\* The time 'H[:MM] AM|PM'.
ClockText(hour, minutes, meridiem) ==
  hour \o (IF minutes = <<>> THEN <<>> ELSE <<":">> \o minutes) \o <<" ">> \o meridiem

ClockTimes ==
  {ClockText(h, m, mer) : h \in ClockParts.hours, m \in ClockParts.minutes,
                          mer \in ClockParts.meridiems}
    \cup { <<>>, <<"T", "B", "A">>, <<"1", ":", "3", "0", " ", "p", "m">> }

CallToIso ==
  /\ call.op = "toIso"
  /\ Returns(toIso(call.args[1], call.args[2]))

\* The pieces a clock text is put together from, and the greatest number of
\* pieces of one text.
ClockPieces == { <<"a", ".", "m", ".">>, <<"P", ".", "M", ".">>, <<"a", ".">>, <<"m", ".">>, <<" ">>, <<"(">>, <<"]">>, <<"9">>, <<"nbsp">> }

MaxPieces == 3

\* The sequences put together from at most n of the pieces.
RECURSIVE Chains(_, _)
Chains(pieces, n) ==
  IF n = 0 THEN {<<>>}
  ELSE With(Chains(pieces, n - 1), LAMBDA shorter :
         shorter \cup {s \o p : s \in shorter, p \in pieces})

ClockTexts == Chains(ClockPieces, MaxPieces)

CallParseClock ==
  /\ call.op = "parseClock"
  /\ Returns(parseClock(call.args[1]))

CallFetchParseClock ==
  /\ call.op = "fetchParseClock"
  /\ Returns(fetchParseClock(call.args[1]))

\* The greatest length of a list of records or rows passed to a call.
MaxRecords == 2

\* Records as decorateRecords meets them: a derived House record, a record
\* of the history file with the searchText of an earlier run, records without
\* isoDate, and a record whose fields have capitals and runs of spaces.
RecordsToDecorate ==
  { [id |-> <<"h", "o", "u", "s", "e", "-", "7">>, branch |-> HouseBranch, committee |-> <<"F", "i", "n">>, date |-> <<"2", "0", "2", "5", "-", "0", "8", "-", "1", "2">>,
     time |-> <<"0", "1", ":", "3", "0", " ", "P", "M">>, venue |-> <<"H", "a", "l", "l">>, agenda |-> <<"T", "a", "x">>, status |-> <<"C", "a", "n", "c", "e", "l", "l", "e", "d">>,
     notes |-> <<>>, isoDate |-> <<"2", "0", "2", "5", "-", "0", "8", "-", "1", "2", "T", "1", "3", ":", "3", "0", ":", "0", "0">>, source |-> HOUSE_SOURCE],
    [id |-> <<"s", "e", "n", "a", "t", "e", "-", "1">>, branch |-> SenateBranch, committee |-> <<"W", "a", "y", "s">>, date |-> <<"2", "0", "2", "5", "-", "0", "8", "-", "1", "3">>,
     time |-> <<"2", " ", "P", "M">>, venue |-> <<"R", "o", "o", "m", " ", "1">>, agenda |-> <<"B", "u", "d">>, status |-> Scheduled,
     notes |-> <<>>, isoDate |-> <<"2", "0", "2", "5", "-", "0", "8", "-", "1", "3", "T", "1", "4", ":", "0", "0", ":", "0", "0">>, source |-> SENATE_SOURCE,
     searchText |-> <<"s", "e", "n", "a", "t", "e", " ", "w", "a", "y", "s", " ", "h", "a", "l", "l", " ", "f", "e", "e", " ", "s", "c", "h", "e", "d", "u", "l", "e", "d">>],
    [id |-> <<"s", "e", "n", "a", "t", "e", "-", "2">>, branch |-> SenateBranch, committee |-> <<"F", "i", "n">>, date |-> <<"2", "0", "2", "5", "-", "0", "8", "-", "1", "2">>,
     time |-> <<"9", " ", "A", "M">>, venue |-> <<>>, agenda |-> <<>>, status |-> Scheduled,
     notes |-> <<>>, isoDate |-> <<>>, source |-> SENATE_SOURCE],
    [id |-> <<"s", "e", "n", "a", "t", "e", "-", "3">>, branch |-> SenateBranch, committee |-> <<"F", "i", "n">>, date |-> <<"T", "u", "e", "s", "d", "a", "y", ",", " ", "A", "u", "g", "u", "s", "t", " ", "1", "2">>,
     time |-> <<"9", " ", "A", "M">>, venue |-> <<"H", "a", "l", "l">>, agenda |-> <<>>, status |-> Scheduled,
     notes |-> <<"O", "n", "w", "a", "r", "d", "s">>, isoDate |-> <<>>, source |-> SENATE_SOURCE,
     searchText |-> <<>>],
    [id |-> <<"h", "o", "u", "s", "e", "-", "3">>, branch |-> HouseBranch, committee |-> <<"W", "a", "y", "s", " ", " ", "A", "n", "d", " ", "M", "e", "a", "n", "s">>, date |-> <<"2", "0", "2", "5", "-", "0", "8", "-", "1", "4">>,
     time |-> <<>>, venue |-> <<" ", "R", "o", "o", "m", " ", "1">>, agenda |-> <<"T", "a", "x", " ", "&", " ", "F", "e", "e">>, status |-> <<"R", "e", "s", "c", "h", "e", "d", "u", "l", "e", "d", ":", " ", "A", "u", "g", " ", "1", "4">>,
     notes |-> <<>>, isoDate |-> <<>>, source |-> HOUSE_SOURCE] }

CallDecorateRecords ==
  /\ call.op = "decorateRecords"
  /\ Returns(decorateRecords(call.args[1]))

\* Records as sortRecords meets them: with and without isoDate, two days,
\* two times of one day, and committees that differ, agree, or differ in case.
RecordsToSort ==
  {[isoDate |-> iso, committee |-> committee] :
     iso \in { <<>>, <<"2", "0", "2", "5", "-", "0", "8", "-", "1", "2", "T", "0", "9", ":", "0", "0", ":", "0", "0">>, <<"2", "0", "2", "5", "-", "0", "8", "-", "1", "2", "T", "1", "3", ":", "3", "0", ":", "0", "0">>, <<"2", "0", "2", "5", "-", "0", "8", "-", "1", "3", "T", "0", "9", ":", "0", "0", ":", "0", "0">> },
     committee \in { <<"F", "i", "n">>, <<"W", "a", "y", "s">>, <<"f", "i", "n">> }}

\* The greatest length of a list passed to sortRecords.
MaxSorted == 3

CallSortRecords ==
  /\ call.op = "sortRecords"
  /\ Returns(sortRecords(call.args[1]))

\* Rows of the House API: every combination of the cancelled flag, a
\* reschedule field and a remarks field, and rows without a date, without a
\* committee, without a time.
HouseFlagRows ==
  {[date |-> <<"2", "0", "2", "5", "-", "0", "8", "-", "1", "2">>, time |-> <<"0", "1", ":", "3", "0", " ", "P", "M">>, comm_name |-> <<"F", "i", "n">>,
    cancelled |-> cancelled, resched |-> resched, remarks |-> remarks] :
     cancelled \in BOOLEAN,
     resched \in { <<>>, <<"A", "u", "g", " ", " ", "1", "4">> },
     remarks \in { <<>>, <<"M", "o", "v", "e", "d">>, <<"S", "c", "h", "e", "d", "u", "l", "e", "d">> }}

HouseOddRows ==
  { [date |-> <<>>, time |-> <<"9", " ", "A", "M">>, comm_name |-> <<"F", "i", "n">>, cancelled |-> TRUE],
    [date |-> <<"2", "0", "2", "5", "-", "0", "8", "-", "1", "2">>, time |-> <<"9", " ", "A", "M">>, comm_name |-> <<" ">>, remarks |-> <<"M", "o", "v", "e", "d">>],
    [date |-> <<"2", "0", "2", "5", "-", "0", "8", "-", "1", "3">>, time |-> <<>>, comm_name |-> <<"W", "a", "y", "s">>, cancelled |-> TRUE],
    [scheduleDate |-> <<"2", "0", "2", "5", "-", "0", "8", "-", "1", "4">>, scheduleTime |-> <<"2", " ", "p", ".", "m", ".">>, committee |-> <<"W", "a", "y", "s">>] }

CallDeriveHouseRecords ==
  /\ call.op = "deriveHouseRecords"
  /\ Returns(deriveHouseRecords(call.args[1]))

\* Senate pages of one day table: a header with its year, without it, or
\* without a date, over rows with and without a time, a committee, a notice.
AdapterPages ==
  {<<DayTable(dayHeader, rows)>> :
     dayHeader \in { <<"T", "u", "e", "s", "d", "a", "y", ",", " ", "A", "u", "g", "u", "s", "t", " ", "1", "2", ",", " ", "2", "0", "2", "5">>, <<"T", "u", "e", "s", "d", "a", "y", ",", " ", "A", "u", "g", ".", " ", "1", "2", "t", "h">>, <<"T", "B", "A">> },
     rows \in Chains({ <<HtmlRow(<<"F", "i", "n">>, <<<<"9", " ", "a", ".", "m", ".">>, <<"H", "a", "l", "l">>>>, <<<<"B", "u", "d">>>>)>>,
                       <<HtmlRow(<<"F", "I", "N">>, <<<<"(", "9", " ", "A", ".", "M", ".", ")">>>>, <<>>)>>,
                       <<HtmlRow(<<"W", "a", "y", "s">>, <<>>, <<<<"T", "a", "x">>>>)>>,
                       <<HtmlRow(<<" ">>, <<<<"2", " ", "P", "M">>>>, <<>>)>>,
                       <<HtmlRow(<<"n", "o", " ", "c", "o", "m", "m", "i", "t", "t", "e", "e", " ", "h", "e", "a", "r", "i", "n", "g", " ", "t", "o", "d", "a", "y">>, <<<<"2", " ", "P", "M">>>>, <<>>)>> },
                     MaxRecords)}

CallDeriveSenateRecordsFromHtml ==
  /\ call.op = "deriveSenateRecordsFromHtml"
  /\ Returns(deriveSenateRecordsFromHtml(call.args[1]))

CallDeriveSenateRecordsFromHtmlAlt ==
  /\ call.op = "deriveSenateRecordsFromHtmlAlt"
  /\ Returns(deriveSenateRecordsFromHtmlAlt(call.args[1]))

\* The functions the model calls, and the argument lists it calls each with.
Functions ==
  {"parseSenateDate", "normalizeSenateDate", "toIso", "parseClock", "fetchParseClock",
   "decorateRecords", "sortRecords", "deriveHouseRecords",
   "deriveSenateRecordsFromHtml", "deriveSenateRecordsFromHtmlAlt"}

ArgumentsOf(op) ==
  CASE op = "parseSenateDate" -> ResolverInputs
    [] op = "normalizeSenateDate" -> {<<record>> : record \in DateRecords}
    [] op = "toIso" -> {<<date, time>> : date \in IsoDates \cup OtherDates, time \in ClockTimes}
    [] op \in {"parseClock", "fetchParseClock"} -> {<<text>> : text \in ClockTexts}
    [] op = "decorateRecords" ->
         {<<records>> : records \in Chains({<<record>> : record \in RecordsToDecorate}, MaxRecords)}
    [] op = "sortRecords" ->
         {<<records>> : records \in Chains({<<record>> : record \in RecordsToSort}, MaxSorted)}
    [] op = "deriveHouseRecords" ->
         {<<rows>> : rows \in Chains({<<row>> : row \in HouseFlagRows \cup HouseOddRows}, MaxRecords)}
    [] op \in {"deriveSenateRecordsFromHtml", "deriveSenateRecordsFromHtmlAlt"} ->
         {<<html>> : html \in SenatePages \cup AdapterPages}

InitCalls ==
  /\ tz \in TimeZones
  /\ clock = 0
  /\ outHouse = <<>>
  /\ outHouseDebug = <<>>
  /\ outSenate = <<>>
  /\ senateHtml = NoFile
  /\ dataHouse = <<>>
  /\ dataSenate = <<>>
  /\ dataAll = <<>>
  /\ senateHistory = <<>>
  /\ metadata = NoMetadata
  /\ scraped = <<>>
  /\ merge = NoMerge
  /\ files = NoFiles
  /\ exitCode = 0
  /\ down = {}
  /\ PageLoaded
  /\ \E op \in Functions : call \in {Pending(op, args) : args \in ArgumentsOf(op)}
  \* only the date resolver reads the time zone
  /\ call.op \notin {"parseSenateDate", "normalizeSenateDate", "deriveSenateRecordsFromHtml",
                      "deriveSenateRecordsFromHtmlAlt"} => tz = "utc"

NextCalls ==
  \/ CallParseSenateDate
  \/ CallNormalizeSenateDate
  \/ CallToIso
  \/ CallParseClock
  \/ CallFetchParseClock
  \/ CallDecorateRecords
  \/ CallSortRecords
  \/ CallDeriveHouseRecords
  \/ CallDeriveSenateRecordsFromHtml
  \/ CallDeriveSenateRecordsFromHtmlAlt

SpecCalls == InitCalls /\ [][NextCalls]_vars

\* ------------------------------------------------------------------------
\* Properties of the helper functions
\* ------------------------------------------------------------------------

\* C11: for every date d already of the form YYYY-MM-DD the date resolver
\* returns d unchanged: parseSenateDate(d) = d, with and without a
\* fallbackYear, and normalizeSenateDate of a record whose date is d is d.
C11_IsoDateResolvesToItself ==
  /\ Returned("parseSenateDate") /\ call.args[1] \in IsoDates
       => call.result = call.args[1]
  /\ Returned("normalizeSenateDate") /\ Get(call.args[1], "date") \in IsoDates
       => call.result = Get(call.args[1], "date")

\* C12: for every label that names a month M, a day D and a year Y, and in
\* every time zone of the machine that runs the build (behind UTC, UTC, ahead
\* of UTC), the date resolver returns exactly Y-M-D.
C12_ResolvedDayNeverShifts ==
  \A c \in DatedLabels :
    Returned("parseSenateDate") /\ call.args = <<c.label, c.year>> => call.result = c.names

\* The hour of the clock time 'H[:MM] AM|PM' on the 24-hour clock: PM with an
\* hour below 12 is hour + 12, AM with hour 12 is 0, every other hour stays.
HourOfDay(hour, meridiem) ==
  IF meridiem = <<"P", "M">> /\ ParseInt(hour) < 12 THEN ParseInt(hour) + 12
  ELSE IF meridiem = <<"A", "M">> /\ ParseInt(hour) = 12 THEN 0
  ELSE ParseInt(hour)

\* C13: for a date of the form YYYY-MM-DD, toIso(date, time) is the date
\* followed by 'T00:00:00' when time is empty, and for a time 'H[:MM] AM|PM'
\* the date followed by 'T', the two-digit hour of the day, ':', the minutes
\* ('00' without minutes) and ':00'.
C13_ToIsoClockArithmetic ==
  Returned("toIso") /\ call.args[1] \in IsoDates =>
    /\ call.args[2] = <<>> => call.result = call.args[1] \o <<"T", "0", "0", ":", "0", "0", ":", "0", "0">>
    /\ \A hour \in ClockParts.hours, minutes \in ClockParts.minutes,
          meridiem \in ClockParts.meridiems :
         call.args[2] = ClockText(hour, minutes, meridiem) =>
           call.result = call.args[1] \o <<"T">>
                           \o PadStart(NumStr(HourOfDay(hour, meridiem)), 2) \o <<":">>
                           \o (IF minutes = <<>> THEN <<"0", "0">> ELSE minutes) \o <<":", "0", "0">>

\* toIso has returned for noon or for midnight.
C13_Witness ==
  /\ Returned("toIso")
  /\ call.args[1] = <<"2", "0", "2", "5", "-", "0", "8", "-", "1", "2">>
  /\ \/ call.args[2] = <<"1", "2", ":", "0", "0", " ", "P", "M">> /\ call.result = <<"2", "0", "2", "5", "-", "0", "8", "-", "1", "2", "T", "1", "2", ":", "0", "0", ":", "0", "0">>
     \/ call.args[2] = <<"1", "2", ":", "0", "0", " ", "A", "M">> /\ call.result = <<"2", "0", "2", "5", "-", "0", "8", "-", "1", "2", "T", "0", "0", ":", "0", "0", ":", "0", "0">>

\* C14: toIso(date, time) is '' for every date that is not exactly of the
\* form YYYY-MM-DD (after normalization), also when the date merely contains
\* such a part with text before or after it, for any time.
C14_ToIsoRejectsOtherDates ==
  Returned("toIso") /\ ~IsIsoDate(norm(call.args[1])) => call.result = <<>>

\* C15: clock canonicalization is idempotent: parseClock(parseClock(s)) =
\* parseClock(s) for every text s, for parseClock of the build stage and for
\* parseClock of the fetch stage.
C15_ParseClockIdempotent ==
  /\ Returned("parseClock") => parseClock(call.result) = call.result
  /\ Returned("fetchParseClock") => fetchParseClock(call.result) = call.result

\* parseClock has returned for a text with a bracket and a dotted meridiem.
C15_Witness ==
  /\ Returned("parseClock")
  /\ call.args[1] = <<"(", "9", "a", ".", "m", ".">>
  /\ call.result = <<"9", "A", "M">>

\* C16: parseClock(s) is the whitespace-normalized s with every 'a.m.' and
\* 'p.m.', in any letter case, replaced by 'AM' and 'PM', and with every
\* other character, parentheses and brackets among them, as it was.
C16_ParseClockKeepsOtherText ==
  Returned("parseClock") => call.result = ReplaceMeridiem(norm(call.args[1]))

\* The branch, committee, venue, agenda, status and notes of a record, each
\* normalized, the empty ones left out, joined by single spaces.
JoinedFields(record) ==
  Join(SelectSeq(<<norm(Get(record, "branch")), norm(Get(record, "committee")),
                   norm(Get(record, "venue")), norm(Get(record, "agenda")),
                   norm(Get(record, "status")), norm(Get(record, "notes"))>>,
                 LAMBDA field : field # <<>>),
       <<" ">>)

\* C17: decoration is idempotent, decorateRecords(decorateRecords(R)) =
\* decorateRecords(R), and the searchText of every decorated record is the
\* lower-case join of the record's own branch, committee, venue, agenda,
\* status and notes, whatever searchText the record brought.
C17_DecorateIdempotent ==
  Returned("decorateRecords") =>
    /\ decorateRecords(call.result) = call.result
    /\ Len(call.result) = Len(call.args[1])
    /\ \A i \in 1..Len(call.result) :
         /\ call.result[i].searchText = toLowerCase(JoinedFields(call.args[1][i]))
         /\ call.result[i].searchText = toLowerCase(JoinedFields(call.result[i]))

\* decorateRecords has returned for a record of the history file that
\* brought the searchText of an earlier run, followed by a record without
\* isoDate.
C17_Witness ==
  /\ Returned("decorateRecords")
  /\ Len(call.args[1]) = 2
  /\ Get(call.args[1][1], "searchText") = <<"s", "e", "n", "a", "t", "e", " ", "w", "a", "y", "s", " ", "h", "a", "l", "l", " ", "f", "e", "e", " ", "s", "c", "h", "e", "d", "u", "l", "e", "d">>
  /\ call.result[1].searchText = <<"s", "e", "n", "a", "t", "e", " ", "w", "a", "y", "s", " ", "r", "o", "o", "m", " ", "1", " ", "b", "u", "d", " ", "s", "c", "h", "e", "d", "u", "l", "e", "d">>
  /\ Get(call.args[1][2], "isoDate") = <<>>
  /\ call.result[2].isoDate = <<"2", "0", "2", "5", "-", "0", "8", "-", "1", "2", "T", "0", "9", ":", "0", "0", ":", "0", "0">>

\* Record a may stand before record b: both have an isoDate and a's is the
\* smaller string, or a has one and b has none, or their isoDates are equal
\* or both missing and a's committee does not come after b's.
MayPrecede(a, b) ==
  IF a.isoDate # <<>> /\ b.isoDate # <<>> /\ a.isoDate # b.isoDate
  THEN StrLess(a.isoDate, b.isoDate)
  ELSE IF a.isoDate = b.isoDate THEN localeCompare(a.committee, b.committee) <= 0
  ELSE a.isoDate # <<>>

\* C18: sortRecords returns a permutation of its input in which the records
\* with an isoDate come first, in non-decreasing string order of isoDate, the
\* records without isoDate come after all of them, and records of equal or
\* of missing isoDate are in ascending order of committee.
C18_SortOrder ==
  Returned("sortRecords") =>
    /\ Len(call.result) = Len(call.args[1])
    /\ \A record \in RecordsToSort :
         Cardinality({i \in 1..Len(call.result) : call.result[i] = record})
           = Cardinality({i \in 1..Len(call.args[1]) : call.args[1][i] = record})
    /\ \A i, j \in 1..Len(call.result) : i < j => MayPrecede(call.result[i], call.result[j])

\* sortRecords has returned for a record without isoDate followed by two
\* records of one isoDate whose committees are out of order.
C18_Witness ==
  /\ Returned("sortRecords")
  /\ call.args[1] = << [isoDate |-> <<>>, committee |-> <<"F", "i", "n">>],
                       [isoDate |-> <<"2", "0", "2", "5", "-", "0", "8", "-", "1", "2", "T", "0", "9", ":", "0", "0", ":", "0", "0">>, committee |-> <<"W", "a", "y", "s">>],
                       [isoDate |-> <<"2", "0", "2", "5", "-", "0", "8", "-", "1", "2", "T", "0", "9", ":", "0", "0", ":", "0", "0">>, committee |-> <<"F", "i", "n">>] >>
  /\ call.result = << [isoDate |-> <<"2", "0", "2", "5", "-", "0", "8", "-", "1", "2", "T", "0", "9", ":", "0", "0", ":", "0", "0">>, committee |-> <<"F", "i", "n">>],
                      [isoDate |-> <<"2", "0", "2", "5", "-", "0", "8", "-", "1", "2", "T", "0", "9", ":", "0", "0", ":", "0", "0">>, committee |-> <<"W", "a", "y", "s">>],
                      [isoDate |-> <<>>, committee |-> <<"F", "i", "n">>] >>

\* Whether pat occurs in s.
Contains(s, pat) == \E i \in 1..(Len(s) - Len(pat) + 1) : SubSeq(s, i, i + Len(pat) - 1) = pat

\* The rows of an API answer that have a date and a committee after
\* normalization.
RowsWithDateAndCommittee(rows) ==
  SelectSeq(rows, LAMBDA row :
    /\ norm(Or(Get(row, "date"), Get(row, "scheduleDate"))) # <<>>
    /\ norm(Or(Get(row, "comm_name"), Get(row, "committee"))) # <<>>)

\* The record is the record of the row: its date and its committee are the
\* row's, normalized.
IsRecordOfRow(record, row) ==
  /\ record.date = norm(Or(Get(row, "date"), Get(row, "scheduleDate")))
  /\ record.committee = norm(Or(Get(row, "comm_name"), Get(row, "committee")))

\* 'Cancelled', 'Rescheduled: <value>' and the remarks of a row, those that
\* the row sets, in this order.
StatusBitsOf(row) ==
  (IF Flag(row, "cancelled") THEN << <<"C", "a", "n", "c", "e", "l", "l", "e", "d">> >> ELSE <<>>)
    \o (IF Get(row, "resched") # <<>>
        THEN << <<"R", "e", "s", "c", "h", "e", "d", "u", "l", "e", "d", ":", " ">> \o norm(Get(row, "resched")) >> ELSE <<>>)
    \o (IF Get(row, "remarks") # <<>> THEN << norm(Get(row, "remarks")) >> ELSE <<>>)

\* C19 as stated: deriveHouseRecords gives a record for every row with a
\* date and a committee, cancelled or not; the status contains 'Cancelled'
\* when the row is cancelled and 'Rescheduled: <value>' when it has a
\* reschedule value, and it is exactly 'Scheduled' if and only if the row
\* sets none of cancelled, resched and remarks.
C19_ScheduledIffNoFlag ==
  Returned("deriveHouseRecords") =>
    LET rows == RowsWithDateAndCommittee(call.args[1])
    IN /\ Len(call.result) = Len(rows)
       /\ \A i \in 1..Len(rows) :
            /\ IsRecordOfRow(call.result[i], rows[i])
            /\ Flag(rows[i], "cancelled") => Contains(call.result[i].status, <<"C", "a", "n", "c", "e", "l", "l", "e", "d">>)
            /\ Get(rows[i], "resched") # <<>>
                 => Contains(call.result[i].status,
                             <<"R", "e", "s", "c", "h", "e", "d", "u", "l", "e", "d", ":", " ">> \o norm(Get(rows[i], "resched")))
            /\ call.result[i].status = Scheduled <=> StatusBitsOf(rows[i]) = <<>>

\* C19, amended: deriveHouseRecords gives a record for every row with a date
\* and a committee, cancelled or not; the status is 'Scheduled' when the row
\* sets none of cancelled, resched and remarks, and otherwise the join by
\* ' · ' of 'Cancelled', 'Rescheduled: <value>' and the remarks, those the
\* row sets (so it contains 'Cancelled' and 'Rescheduled: <value>' when they
\* are set, and it is 'Scheduled' also for a row whose remarks say so).
C19_StatusJoinsFlags ==
  Returned("deriveHouseRecords") =>
    LET rows == RowsWithDateAndCommittee(call.args[1])
    IN /\ Len(call.result) = Len(rows)
       /\ \A i \in 1..Len(rows) :
            /\ IsRecordOfRow(call.result[i], rows[i])
            /\ Flag(rows[i], "cancelled") => Contains(call.result[i].status, <<"C", "a", "n", "c", "e", "l", "l", "e", "d">>)
            /\ Get(rows[i], "resched") # <<>>
                 => Contains(call.result[i].status,
                             <<"R", "e", "s", "c", "h", "e", "d", "u", "l", "e", "d", ":", " ">> \o norm(Get(rows[i], "resched")))
            /\ StatusBitsOf(rows[i]) = <<>> => call.result[i].status = Scheduled
            /\ StatusBitsOf(rows[i]) # <<>>
                 => call.result[i].status = Join(StatusBitsOf(rows[i]), StatusSeparator)

\* deriveHouseRecords has returned for a cancelled row with a reschedule
\* value and remarks, followed by a row that sets none of the three.
C19_Witness ==
  /\ Returned("deriveHouseRecords")
  /\ Len(call.args[1]) = 2
  /\ Len(call.result) = 2
  /\ Flag(call.args[1][1], "cancelled")
  /\ call.result[1].status = <<"C", "a", "n", "c", "e", "l", "l", "e", "d", " ", "mdot", " ", "R", "e", "s", "c", "h", "e", "d", "u", "l", "e", "d", ":", " ", "A", "u", "g", " ", "1", "4", " ", "mdot", " ", "M", "o", "v", "e", "d">>
  /\ StatusBitsOf(call.args[1][2]) = <<>>
  /\ call.result[2].status = Scheduled

\* ------------------------------------------------------------------------
\* Properties of the House pipeline
\* ------------------------------------------------------------------------

\* C20: a row of the House API answer with a date and a committee but
\* without a time is retained: after the fetch stage and the build stage the
\* canonical House output has its record, with an empty time; a row without
\* a date or without a committee gives no record.
C20_TimelessRowRetained ==
  [][clock' = clock + 1 =>
       /\ \A i \in 1..Len(outHouseDebug) :
            /\ RowsWithDateAndCommittee(<<outHouseDebug[i]>>) # <<>>
            /\ Get(outHouseDebug[i], "time") = <<>>
            => \E j \in 1..Len(dataHouse') :
                 /\ IsRecordOfRow(dataHouse'[j], outHouseDebug[i])
                 /\ dataHouse'[j].time = <<>>
       /\ \A j \in 1..Len(dataHouse') :
            dataHouse'[j].date # <<>> /\ dataHouse'[j].committee # <<>>]_vars

\* ------------------------------------------------------------------------
\* Properties of the HTML-table adapter
\* ------------------------------------------------------------------------

NoHearingNotice == <<"n", "o", " ", "c", "o", "m", "m", "i", "t", "t", "e", "e", " ", "h", "e", "a", "r", "i", "n", "g">>

\* The date the adapter op resolves a day header to.
AdapterDate(op, dayHeader) ==
  IF op = "deriveSenateRecordsFromHtml" THEN parseSenateDate(norm(dayHeader), <<>>)
  ELSE parseSenateDateAlt(norm(dayHeader))

\* The data rows of a page, as <<table, row>> positions, that have a day
\* with a date, a time and a committee that is not the notice.
CompleteRows(op, html) ==
  {p \in UNION {{<<t, k>> : k \in 1..Len(html[t].rows)} : t \in 1..Len(html)} :
     With(html[p[1]].rows[p[2]], LAMBDA row :
       /\ AdapterDate(op, html[p[1]].dayHeader) # <<>>
       /\ cellParts(row.timeVenue) # <<>>
       /\ parseClock(cellParts(row.timeVenue)[1]) # <<>>
       /\ norm(row.committee) # <<>>
       /\ ~ContainsCI(norm(row.committee), NoHearingNotice))}

\* C21: every record the HTML-table adapter emits has a resolved date, a
\* non-empty time and a non-empty committee that does not contain the 'no
\* committee hearing' notice in any letter case, and a data row that lacks
\* one of them yields no record; for the adapter of the build script and for
\* the adapter of the second script of fetch.js.
C21_AdapterEmitsCompleteRows ==
  \A op \in {"deriveSenateRecordsFromHtml", "deriveSenateRecordsFromHtmlAlt"} :
    Returned(op) =>
      /\ \A i \in 1..Len(call.result) :
           /\ IsIsoDate(call.result[i].date)
           /\ call.result[i].time # <<>>
           /\ call.result[i].committee # <<>>
           /\ ~ContainsCI(call.result[i].committee, NoHearingNotice)
      /\ Len(call.result) <= Cardinality(CompleteRows(op, call.args[1]))

\* ------------------------------------------------------------------------
\* Properties of the build stage as a whole
\* ------------------------------------------------------------------------

\* C22: an artifact whose text is malformed JSON is read as null, an absent
\* one too, and one that holds a JSON list is read as that list, not as
\* null; a build run that meets a malformed history file goes on from an
\* empty baseline, writes its outputs and does not end in failure.
C22_MalformedArtifactReadAsNull ==
  [][clock' = clock + 1 =>
       /\ \A name \in Artifacts :
            /\ files[name] \in {"malformed", "missing"}
                 => ~readJson(name).threw /\ readJson(name).null
            /\ files[name] = "json" => ~readJson(name).threw /\ ~readJson(name).null
       /\ (\E name \in Artifacts : files[name] = "malformed")
            => /\ exitCode' = 0
               /\ metadata'.generatedAt = IsoTime(clock)
               /\ files["senate-history.json"] = "malformed" => merge'.previous = <<>>]_vars

\* The records of list, as a set.
RecordsOf(list) == {list[i] : i \in 1..Len(list)}

\* C23: when the source of one chamber failed entirely in the fetch run, the
\* build run that follows completes, the metadata count of that chamber is
\* 0, and the combined output holds the records of the other chamber.
C23_FailedSourceCountsZero ==
  [][clock' = clock + 1 /\ down # {} =>
       /\ exitCode' = 0
       /\ metadata'.generatedAt = IsoTime(clock)
       /\ HouseBranch \in down =>
            /\ metadata'.counts.house = 0
            /\ RecordsOf(dataSenate') \subseteq RecordsOf(dataAll')
       /\ SenateBranch \in down =>
            /\ metadata'.counts.senate = 0
            /\ RecordsOf(dataHouse') \subseteq RecordsOf(dataAll')]_vars

\* C24: in the metadata the build stage writes, counts.house and
\* counts.senate are the lengths of the written House and Senate lists,
\* counts.all is their sum, history.senate.entries is the Senate count, and
\* history.senate.firstSeenAt and lastSeenAt are the least firstSeenAt and
\* the greatest lastSeenAt of the Senate history records, null ('' here)
\* only when there is no record.
C24_MetadataMatchesOutputs ==
  /\ metadata.counts.house = Len(dataHouse)
  /\ metadata.counts.senate = Len(dataSenate)
  /\ metadata.counts.all = metadata.counts.house + metadata.counts.senate
  /\ metadata.history.entries = metadata.counts.senate
  /\ dataSenate = <<>> => metadata.history.firstSeenAt = <<>> /\ metadata.history.lastSeenAt = <<>>
  /\ dataSenate # <<>> =>
       /\ metadata.history.firstSeenAt # <<>>
       /\ metadata.history.lastSeenAt # <<>>
       /\ \E i \in 1..Len(dataSenate) : dataSenate[i].firstSeenAt = metadata.history.firstSeenAt
       /\ \E i \in 1..Len(dataSenate) : dataSenate[i].lastSeenAt = metadata.history.lastSeenAt
       /\ \A i \in 1..Len(dataSenate) :
            /\ ~StrLess(dataSenate[i].firstSeenAt, metadata.history.firstSeenAt)
            /\ ~StrLess(metadata.history.lastSeenAt, dataSenate[i].lastSeenAt)

\* A written metadata with House records and with Senate records first seen
\* in different runs, the later-seen one sorted first.
C24_Witness ==
  /\ metadata.counts.house > 0
  /\ metadata.counts.senate >= 2
  /\ StrLess(dataSenate[2].firstSeenAt, dataSenate[1].firstSeenAt)
  /\ metadata.history.firstSeenAt # metadata.history.lastSeenAt

\* The isoDate of every record of the list that has one is toIso of the
\* record's own date and time.
IsoDateIsCache(records) ==
  \A i \in 1..Len(records) :
    Get(records[i], "isoDate") # <<>>
      => records[i].isoDate = toIso(Get(records[i], "date"), Get(records[i], "time"))

\* C25: in every canonical output, a record's isoDate, when it has one, is
\* toIso(date, time) of the record's own date and time; also for a House
\* record whose row had a datetime field and for a Senate record merged from
\* the history.
C25_IsoDateDerivable ==
  /\ IsoDateIsCache(dataHouse)
  /\ IsoDateIsCache(dataSenate)
  /\ IsoDateIsCache(dataAll)

\* ------------------------------------------------------------------------
\* Properties of the static list page
\* ------------------------------------------------------------------------

SeenStamped(records) ==
  \A i \in 1..Len(records) :
    /\ Get(records[i], "firstSeenAt") # <<>>
    /\ Get(records[i], "lastSeenAt") # <<>>
    /\ ~StrLess(Get(records[i], "lastSeenAt"), Get(records[i], "firstSeenAt"))

\* C27: from an empty history and with a clock that does not go backwards,
\* after any sequence of runs every record of the Senate history has
\* non-empty firstSeenAt and lastSeenAt with firstSeenAt <= lastSeenAt, and
\* from one run to the next the firstSeenAt of a key does not change and its
\* lastSeenAt does not decrease.
C27_SeenTimestampsMonotone ==
  /\ SeenStamped(senateHistory)
  /\ [][/\ SeenStamped(senateHistory')
        /\ \A i \in 1..Len(senateHistory), j \in 1..Len(senateHistory') :
             recordKey(senateHistory[i]) = recordKey(senateHistory'[j])
               => /\ Get(senateHistory'[j], "firstSeenAt") = Get(senateHistory[i], "firstSeenAt")
                  /\ ~StrLess(Get(senateHistory'[j], "lastSeenAt"),
                              Get(senateHistory[i], "lastSeenAt"))]_vars

\* A record first seen in the first run was seen again in the second.
C27_Witness ==
  \E i \in 1..Len(senateHistory) :
    /\ Get(senateHistory[i], "firstSeenAt") = IsoTime(0)
    /\ Get(senateHistory[i], "lastSeenAt") = IsoTime(1)

\* The records that the front end shows for the published files.
Combined == mergeRecords(dataAll, dataHouse \o dataSenate)

\* C28: after any sequence of runs no two records of the canonical Senate
\* output have the same id, so the id-keyed merge of the front end keeps
\* every hearing (dedup key) of the Senate output.
C28_SenateIdsUnique ==
  /\ \A i, j \in 1..Len(dataSenate) :
       Get(dataSenate[i], "id") = Get(dataSenate[j], "id") => i = j
  /\ KeysOf(dataSenate) \subseteq KeysOf(Combined)

\* ------------------------------------------------------------------------
\* Properties of the two stages together
\* ------------------------------------------------------------------------

\* The API rows with the cancelled flag and a date, a time and a committee.
CancelledRows(rows) ==
  SelectSeq(rows, LAMBDA row :
    /\ Flag(row, "cancelled")
    /\ Get(row, "date") # <<>> /\ Get(row, "time") # <<>> /\ Get(row, "comm_name") # <<>>)

\* C29: when the House API has answered and the build stage has run on the
\* fetch stage's house.json, every API row that is cancelled and has a date,
\* a time and a committee has a canonical House record whose status
\* contains 'Cancelled'.
C29_CancelledSurvivesFetch ==
  [][clock' = clock + 1 /\ exitCode' = 0 /\ HouseBranch \notin down
       => \A i \in 1..Len(CancelledRows(outHouseDebug)) :
            \E j \in 1..Len(dataHouse') :
              /\ IsRecordOfRow(dataHouse'[j], CancelledRows(outHouseDebug)[i])
              /\ Contains(dataHouse'[j].status, <<"C", "a", "n", "c", "e", "l", "l", "e", "d">>)]_vars

\* The fields of a history record that a re-merge of the same scrape must
\* leave as they are.
StableFields ==
  {"committee", "date", "time", "venue", "agenda", "status", "notes", "isoDate", "firstSeenAt"}

\* The two histories have the same keys and, key by key, the same stable
\* fields.
SameContent(h1, h2) ==
  /\ KeysOf(h1) = KeysOf(h2)
  /\ \A i \in 1..Len(h1), j \in 1..Len(h2) :
       recordKey(h1[i]) = recordKey(h2[j])
         => \A f \in StableFields : Get(h1[i], f) = Get(h2[j], f)

\* C30: a run that merges the scrape of the run before it once more, into
\* the history that run wrote, gives a history with the same keys and, for
\* each key, the same committee, date, time, venue, agenda, status, notes,
\* isoDate and firstSeenAt; only lastSeenAt and capturedAt may differ.
C30_RemergeIdempotent ==
  [][(merge # NoMerge /\ merge' # merge /\ merge'.current = merge.current
        /\ KeysOf(merge'.previous) = KeysOf(merge.out))
       => SameContent(merge.out, merge'.out)]_vars

====
